---- MODULE Spec2Model ----
(***************************************************************************)
(* The realtime session pipeline of ScribeAI: the Socket.io server         *)
(* (server/index.ts), the Prisma data-access helpers (src/lib/db/          *)
(* sessions.ts), the Gemini wrappers (src/lib/gemini.ts), the tables of    *)
(* the initial migration, and the client: the recorder state machine       *)
(* (src/lib/state/recorderMachine.ts) and the Recorder component           *)
(* (sessions/Recorder.tsx).                                                *)
(*                                                                         *)
(* Every socket handler is an async function: it runs synchronously up to  *)
(* its next await, and the store or gateway call it awaits takes effect    *)
(* at some later moment, interleaved with the other handlers in flight.    *)
(* A handler invocation is a task; each action below is one such segment.  *)
(*                                                                         *)
(* Text is a sequence of tokens; the token " " is whitespace.              *)
(***************************************************************************)
EXTENDS Integers, Sequences, FiniteSets, TLC

VARIABLES
  sessions,    \* rows of table "Session"
  chunks,      \* rows of table "TranscriptChunk"
  summaries,   \* rows of table "Summary"
  nextId,      \* the next generated row id (cuid)
  rooms,       \* Socket.io rooms: session id -> connections joined
  tasks,       \* handler invocations in flight
  emitted,     \* the events emitted by the latest step, in order
  lastDone,    \* the handler invocation that returned last, as it ended
  events,      \* number of inbound events dispatched so far
  faults,      \* number of gateway or store failures so far
  recorder     \* the Recorder component of one browser tab

vars == <<sessions, chunks, summaries, nextId, rooms, tasks, emitted, lastDone,
          events, faults, recorder>>

\* What the server consists of; the Recorder component is the rest.
server == <<sessions, chunks, summaries, nextId, rooms, tasks, emitted,
            lastDone, events, faults>>

store == <<sessions, chunks, summaries, nextId>>

-----------------------------------------------------------------------------
(* Bounds of the model *)

MaxEvents == 2
MaxInFlight == 2
MaxIndex == 1
MaxFaults == 1

-----------------------------------------------------------------------------
(* Universe of values *)

SessionIds == {"s1", "s2"}          \* well-formed UUID strings
Conns == {"c1", "c2"}               \* connected sockets
Users == {"u1"}                     \* ids of the rows of table "User"
TaskIds == 1 .. MaxInFlight
Indexes == 0 .. MaxIndex

NULL == "NULL"

\* A JSON value of an inbound payload: a string, a number or a missing key.
Str(s) == [t |-> "string", s |-> s, n |-> 0, int |-> FALSE]
Num(n) == [t |-> "number", s |-> "", n |-> n, int |-> TRUE]
Frac(n) == [t |-> "number", s |-> "", n |-> n, int |-> FALSE]  \* n + 1/2
Undefined == [t |-> "undefined", s |-> "", n |-> 0, int |-> FALSE]

-----------------------------------------------------------------------------
(* Text *)

RECURSIVE TrimStart(_)
TrimStart(s) ==
  IF s # <<>> /\ Head(s) = " " THEN TrimStart(Tail(s)) ELSE s

RECURSIVE TrimEnd(_)
TrimEnd(s) ==
  IF s # <<>> /\ s[Len(s)] = " " THEN TrimEnd(SubSeq(s, 1, Len(s) - 1)) ELSE s

\* String.prototype.trim
Trim(s) == TrimEnd(TrimStart(s))

RECURSIVE Join(_, _)
\* Array.prototype.join over an array of texts
Join(texts, sep) ==
  IF texts = <<>> THEN <<>>
  ELSE IF Len(texts) = 1 THEN texts[1]
  ELSE texts[1] \o sep \o Join(Tail(texts), sep)

RECURSIVE Without(_, _)
\* String.prototype.replace(/.../g, "") for a pattern matching the tokens pat
Without(s, pat) ==
  IF s = <<>> THEN <<>>
  ELSE IF Head(s) \in pat THEN Without(Tail(s), pat)
  ELSE <<Head(s)>> \o Without(Tail(s), pat)

-----------------------------------------------------------------------------
(* Inbound payloads and their schemas *)

\* An inbound payload is an object; a key the sender left out is Undefined.
\* Zod strips the keys a schema does not name, so one record shape serves
\* the three schemas.
Payload(sessionId, userId, title, sourceType, index, audioBase64, mimeType, startMs, endMs) ==
  [sessionId |-> sessionId, userId |-> userId, title |-> title,
   sourceType |-> sourceType, index |-> index, audioBase64 |-> audioBase64,
   mimeType |-> mimeType, startMs |-> startMs, endMs |-> endMs]

ZString(v) == v.t = "string"
ZUuid(v) == ZString(v) /\ v.s \in SessionIds
ZOptionalString(v) == v.t = "undefined" \/ ZString(v)
ZEnum(v, members) == ZString(v) /\ v.s \in members
ZNonEmptyString(v) == ZString(v) /\ v.s # ""
\* A variant without nonnegative(): any integer passes.
ZInt(v) == v.t = "number" /\ v.int

ZNonNegativeInt(v) == v.t = "number" /\ v.int /\ v.n >= 0

SessionStartSchema(p) ==
  /\ ZUuid(p.sessionId)
  /\ ZString(p.userId)
  /\ ZOptionalString(p.title)
  /\ ZEnum(p.sourceType, {"MIC", "TAB"})

AudioChunkSchema(p) ==
  /\ ZUuid(p.sessionId)
  /\ ZNonNegativeInt(p.index)
  /\ ZNonEmptyString(p.audioBase64)
  /\ ZNonEmptyString(p.mimeType)
  /\ ZNonNegativeInt(p.startMs)
  /\ ZNonNegativeInt(p.endMs)

SessionControlSchema(p) == ZUuid(p.sessionId)

\* The payloads a client may send with session:start.
StartPayloads ==
  { Payload(Str("s1"), Str("u1"), Undefined, Str("MIC"),
            Undefined, Undefined, Undefined, Undefined, Undefined),
    Payload(Str("s1"), Str("u1"), Str("standup"), Str("TAB"),
            Undefined, Undefined, Undefined, Undefined, Undefined),
    Payload(Str("s2"), Str("u1"), Undefined, Str("TAB"),
            Undefined, Undefined, Undefined, Undefined, Undefined),
    Payload(Str("s2"), Str("nobody"), Undefined, Str("MIC"),
            Undefined, Undefined, Undefined, Undefined, Undefined) }
  \cup
  { Payload(Str("not-a-uuid"), Str("u1"), Undefined, Str("MIC"),
            Undefined, Undefined, Undefined, Undefined, Undefined),
    Payload(Str("s1"), Undefined, Undefined, Str("MIC"),
            Undefined, Undefined, Undefined, Undefined, Undefined),
    Payload(Str("s1"), Str("u1"), Num(7), Str("MIC"),
            Undefined, Undefined, Undefined, Undefined, Undefined),
    Payload(Str("s1"), Str("u1"), Str("standup"), Str("SCREEN"),
            Undefined, Undefined, Undefined, Undefined, Undefined) }

\* The payloads a client may send with session:audioChunk.
AudioChunkPayloads ==
  { Payload(Str(s), Undefined, Undefined, Undefined,
            Num(i), Str("T2dnUw=="), Str("audio/webm;codecs=opus"),
            Num(i * 10), Num(i * 10 + 10)) :
      s \in SessionIds, i \in Indexes }
  \cup
  { Payload(Num(1), Undefined, Undefined, Undefined,
            Num(0), Str("T2dnUw=="), Str("audio/webm"), Num(0), Num(10)),
    Payload(Str("s1"), Undefined, Undefined, Undefined,
            Num(-1), Str("T2dnUw=="), Str("audio/webm"), Num(0), Num(10)),
    Payload(Str("s1"), Undefined, Undefined, Undefined,
            Frac(0), Str("T2dnUw=="), Str("audio/webm"), Num(0), Num(10)),
    Payload(Str("s1"), Undefined, Undefined, Undefined,
            Num(0), Str(""), Str("audio/webm"), Num(0), Num(10)),
    Payload(Str("s1"), Undefined, Undefined, Undefined,
            Num(0), Str("T2dnUw=="), Str(""), Num(0), Num(10)),
    Payload(Str("s1"), Undefined, Undefined, Undefined,
            Num(0), Str("T2dnUw=="), Str("audio/webm"), Num(-5), Num(10)),
    Payload(Str("s1"), Undefined, Undefined, Undefined,
            Num(0), Str("T2dnUw=="), Str("audio/webm"), Num(0), Frac(10)) }

\* The payloads a client may send with session:pause, :resume and :stop.
ControlPayloads ==
  { Payload(Str(s), Undefined, Undefined, Undefined,
            Undefined, Undefined, Undefined, Undefined, Undefined) :
      s \in SessionIds \cup {"not-a-uuid"} }
  \cup
  { Payload(Undefined, Undefined, Undefined, Undefined,
            Undefined, Undefined, Undefined, Undefined, Undefined) }

-----------------------------------------------------------------------------
(* The gateways (src/lib/gemini.ts) *)

None == <<>>
Some(v) == <<v>>

\* What the transcription model may answer for a segment.
\* The speech in the audio of the segment with this index.
Utterance(index) == IF index = 0 THEN <<"hello">> ELSE <<"world">>

\* What the model may answer for that audio: the speech with whitespace around
\* it, or whitespace only (silence).
TranscribeResponses(index) == { <<" ">> \o Utterance(index) \o <<" ">>, <<" ">> }

\* transcribeChunk: the model's text, trimmed.
transcribeChunk(response) == [text |-> Trim(response)]

FenceJson == "<fence>json"   \* a code fence opening with the json tag
Fence == "<fence>"           \* a bare code fence
DocFull == "{summary,keyPoints,actionItems,decisions}"
DocNoSummary == "{keyPoints}"
DocNull == "null"

\* What the summarization model may answer.
SummaryResponses ==
  { <<Fence, "not json", Fence, " ">>,
    <<FenceJson, " ", DocFull, " ", Fence, " ">>,
    <<DocNoSummary>>,
    <<DocNull>> }

\* The JSON documents among the tokens, and the value each parses to. A key
\* the document lacks is None; isNull marks the JSON value null.
JsonDocs == {DocFull, DocNoSummary, DocNull}

JsonValue(doc) ==
  CASE doc = DocFull ->
         [isNull |-> FALSE,
          summary |-> Some(<<"overview">>),
          keyPoints |-> Some(<< <<"point">> >>),
          actionItems |-> Some(<< <<"todo">>, <<"ship">> >>),
          decisions |-> Some(<<>>)]
    [] doc = DocNoSummary ->
         [isNull |-> FALSE,
          summary |-> None,
          keyPoints |-> Some(<< <<"point">> >>),
          actionItems |-> None,
          decisions |-> None]
    [] OTHER ->
         [isNull |-> TRUE,
          summary |-> None, keyPoints |-> None,
          actionItems |-> None, decisions |-> None]

\* JSON.parse: whitespace around one document is allowed, anything else throws.
JsonParses(text) == Len(Trim(text)) = 1 /\ Trim(text)[1] \in JsonDocs
JsonParse(text) == JsonValue(Trim(text)[1])

Quote(text) == <<"<quote>">> \o text \o <<"<quote>">>

\* JSON.stringify of an array of strings
JsonStringify(list) ==
  <<"[">> \o Join([i \in 1 .. Len(list) |-> Quote(list[i])], <<",">>) \o <<"]">>

\* A variant whose fallback keeps the text with the code fences stripped.
summarizeTranscriptStripped(response) ==
  LET raw == Trim(response)
      normalized == Trim(Without(raw, {FenceJson, Fence}))
      Fallback == [content |-> normalized, keyPoints |-> None,
                   actionItems |-> None, decisions |-> None]
  IN  IF ~JsonParses(normalized) THEN Fallback
      ELSE LET parsed == JsonParse(normalized)
           IN  IF parsed.isNull THEN Fallback
               ELSE [content |-> IF parsed.summary # None
                                 THEN parsed.summary[1] ELSE raw,
                     keyPoints |-> parsed.keyPoints,
                     actionItems |-> parsed.actionItems,
                     decisions |-> parsed.decisions]

\* summarizeTranscript, from the model's response on: trim, strip the code
\* fences, parse, and fall back to the raw text when parsing throws.
summarizeTranscript(response) ==
  LET raw == Trim(response)
      normalized == Trim(Without(raw, {FenceJson, Fence}))
      Fallback == [content |-> raw, keyPoints |-> None,
                   actionItems |-> None, decisions |-> None]
  IN  IF ~JsonParses(normalized) THEN Fallback
      ELSE LET parsed == JsonParse(normalized)
           IN  IF parsed.isNull THEN Fallback
               ELSE [content |-> IF parsed.summary # None
                                 THEN parsed.summary[1] ELSE raw,
                     keyPoints |-> parsed.keyPoints,
                     actionItems |-> parsed.actionItems,
                     decisions |-> parsed.decisions]

-----------------------------------------------------------------------------
(* The store (src/lib/db/sessions.ts over the tables of the migration) *)

SessionRow(id, userId, sourceType) ==
  [id |-> id, userId |-> userId, sourceType |-> sourceType,
   status |-> "RECORDING", completedAt |-> NULL]

SessionsOf(id) == {r \in sessions : r.id = id}
ChunksOf(id) == {r \in chunks : r.sessionId = id}
SummariesOf(id) == {r \in summaries : r.sessionId = id}

\* A variant without Session_pkey: only the foreign key refuses a row.
createSessionErrorOfUser(id, userId) ==
  IF userId \notin Users THEN "P2003" ELSE NULL

\* What prisma.session.create throws: Session_pkey (P2002) or
\* Session_userId_fkey (P2003) refuses the row; NULL when it is inserted.
createSessionError(id, userId) ==
  IF SessionsOf(id) # {} THEN "P2002"
  ELSE IF userId \notin Users THEN "P2003"
  ELSE NULL

createSession(id, userId, sourceType) ==
  sessions \cup {SessionRow(id, userId, sourceType)}

\* A variant that upserts: a session without a row gets one.
updateSessionStatusOrCreate(id, status) ==
  IF SessionsOf(id) = {}
  THEN sessions \cup {[id |-> id, userId |-> NULL, sourceType |-> NULL,
                       status |-> status, completedAt |-> NULL]}
  ELSE {IF r.id = id THEN [r EXCEPT !.status = status] ELSE r : r \in sessions}

\* A variant that only moves a session on from RECORDING.
updateSessionStatusOfRecording(id, status) ==
  {IF r.id = id /\ r.status = "RECORDING" THEN [r EXCEPT !.status = status]
   ELSE r : r \in sessions}

\* updateSessionStatus: updateMany over the rows with that id (none or one).
updateSessionStatus(id, status) ==
  {IF r.id = id THEN [r EXCEPT !.status = status] ELSE r : r \in sessions}

\* A variant that refuses the chunk of a session that is no longer live.
appendTranscriptChunkErrorOfEnded(id) ==
  IF SessionsOf(id) = {} THEN "P2003"
  ELSE IF \E r \in SessionsOf(id) : r.status \notin {"RECORDING", "PAUSED"}
  THEN "P2025"
  ELSE NULL

\* What prisma.transcriptChunk.create throws: TranscriptChunk_sessionId_fkey
\* (P2003) refuses a row of no session; NULL when it is inserted.
appendTranscriptChunkError(id) ==
  IF SessionsOf(id) = {} THEN "P2003" ELSE NULL

\* A variant that keeps one row per index: the row replaces the stored rows
\* of the session with the index.
appendTranscriptChunkReplacing(id, index, text, startMs, endMs) ==
  {r \in chunks : ~ (r.sessionId = id /\ r.index = index)} \cup
  {[id |-> nextId, sessionId |-> id, index |-> index,
    text |-> text, startMs |-> startMs, endMs |-> endMs]}

\* prisma.transcriptChunk.create: the rows with the new row, under a fresh id.
appendTranscriptChunk(id, index, text, startMs, endMs) ==
  chunks \cup {[id |-> nextId, sessionId |-> id, index |-> index,
                text |-> text, startMs |-> startMs, endMs |-> endMs]}

\* The sequences that hold each row of a set once.
Orderings(rows) ==
  {o \in [1 .. Cardinality(rows) -> rows] :
     \A i, j \in 1 .. Cardinality(rows) : i # j => o[i] # o[j]}

\* A variant without the orderBy: the rows come in the order of insertion.
findManyChunksUnordered(id) ==
  {o \in Orderings(ChunksOf(id)) :
     \A i, j \in 1 .. Len(o) : i < j => o[i].id <= o[j].id}

\* findMany({where: {sessionId}, orderBy: {index: "asc"}}): rows of equal index
\* come in an order the database chooses.
findManyChunks(id) ==
  {o \in Orderings(ChunksOf(id)) :
     \A i, j \in 1 .. Len(o) : i < j => o[i].index <= o[j].index}

\* keyPoints ? JSON.stringify(keyPoints) : null (an array is truthy)
StringifyOrNull(list) ==
  IF list # None THEN Some(JsonStringify(list[1])) ELSE None

\* A variant that creates a Summary row on every finalization.
createSummary(id, summary) ==
  summaries \cup
  {[id |-> nextId, sessionId |-> id, content |-> summary.content,
    keyPoints |-> StringifyOrNull(summary.keyPoints),
    actionItems |-> StringifyOrNull(summary.actionItems),
    decisions |-> StringifyOrNull(summary.decisions)]}

\* prisma.summary.upsert keyed by sessionId
upsertSummary(id, summary) ==
  IF SummariesOf(id) # {}
  THEN {IF r.sessionId = id
        THEN [r EXCEPT !.content = summary.content,
                       !.keyPoints = StringifyOrNull(summary.keyPoints),
                       !.actionItems = StringifyOrNull(summary.actionItems),
                       !.decisions = StringifyOrNull(summary.decisions)]
        ELSE r : r \in summaries}
  ELSE summaries \cup
       {[id |-> nextId, sessionId |-> id, content |-> summary.content,
         keyPoints |-> StringifyOrNull(summary.keyPoints),
         actionItems |-> StringifyOrNull(summary.actionItems),
         decisions |-> StringifyOrNull(summary.decisions)]}

\* What the transaction throws: prisma.session.update finds no row with the
\* id (P2025) and the transaction is rolled back; NULL when it commits.
completeSessionError(id) ==
  IF SessionsOf(id) = {} THEN "P2025" ELSE NULL

completeSession(id, status) ==
  {IF r.id = id THEN [r EXCEPT !.status = status, !.completedAt = "now"]
   ELSE r : r \in sessions}

\* findUniqueOrThrow with the chunks in index order and the summary: the
\* hydrated sessions the read may return (none when the row is missing).
findSessionWithRelations(id) ==
  {[session |-> r, transcriptChunks |-> o,
    summary |-> IF SummariesOf(id) = {} THEN None
                ELSE Some(CHOOSE m \in SummariesOf(id) : TRUE)] :
     r \in SessionsOf(id), o \in findManyChunks(id)}

-----------------------------------------------------------------------------
(* Handler invocations and the events they emit *)

\* The locals of a handler invocation. error is what an awaited call threw:
\* GatewayError, StoreError, or a refusal of the database: "P2002" (unique
\* constraint), "P2003" (foreign key), "P2025" (row not found).
Free ==
  [pc |-> "free", kind |-> NULL, conn |-> NULL, sessionId |-> NULL,
   userId |-> NULL, sourceType |-> NULL, index |-> 0, startMs |-> 0,
   endMs |-> 0, text |-> <<>>, chunks |-> <<>>, fullTranscript |-> <<>>,
   prompts |-> <<>>, response |-> <<>>, summary |-> None,
   completedSession |-> None, error |-> NULL,
   did |-> <<>>,       \* what a session:stop handler has done so far, in order
   alone |-> TRUE,     \* no other handler has been in flight since it began
   before |-> None]    \* the rows of its session when it began

InFlight == {t \in TaskIds : tasks[t].pc # "free"}

RowsOf(id) ==
  [sessions |-> SessionsOf(id), chunks |-> ChunksOf(id),
   summaries |-> SummariesOf(id)]

Event(type, from, to, sessionId, status, chunk, message, session) ==
  [type |-> type, from |-> from, to |-> to, sessionId |-> sessionId,
   status |-> status, chunk |-> chunk, message |-> message,
   session |-> session]

\* socket.emit("session:error", {message})
\* A variant that sends the error to every connected socket.
ErrorEventToAll(conn, message) ==
  Event("session:error", conn, Conns, NULL, NULL, None, message, None)

ErrorEvent(conn, message) ==
  Event("session:error", conn, {conn}, NULL, NULL, None, message, None)

\* io.to(sessionId).emit("session:status", {sessionId, status}), emitted by
\* the handler of connection from to the connections in the room
StatusEvent(from, to, sessionId, status) ==
  Event("session:status", from, to, sessionId, status, None, NULL, None)

\* io.to(sessionId).emit("session:partialTranscript", {...})
PartialTranscriptEvent(from, to, sessionId, index, text, startMs, endMs) ==
  Event("session:partialTranscript", from, to, sessionId, NULL,
        Some([index |-> index, text |-> text,
              startMs |-> startMs, endMs |-> endMs]), NULL, None)

\* io.to(sessionId).emit("session:completed", {sessionId, session})
CompletedEvent(from, to, sessionId, session) ==
  Event("session:completed", from, to, sessionId, NULL, None, NULL,
        Some(session))

\* The handler's payload failed its schema: an error to the sender, and return.
Reject(conn, message) ==
  /\ events < MaxEvents
  /\ events' = events + 1
  /\ emitted' = <<ErrorEvent(conn, message)>>
  /\ UNCHANGED <<store, rooms, tasks, lastDone, faults, recorder>>

\* The handler's payload parsed: the handler runs up to its first await.
Accept(task) ==
  /\ events < MaxEvents
  /\ InFlight # TaskIds
  /\ events' = events + 1
  /\ LET slot == CHOOSE t \in TaskIds \ InFlight :
                   \A u \in TaskIds \ InFlight : t <= u
     IN  tasks' = [t \in TaskIds |->
                     IF t = slot
                     THEN [task EXCEPT !.alone = (InFlight = {}),
                                       !.before = Some(RowsOf(task.sessionId))]
                     ELSE IF t \in InFlight THEN [tasks[t] EXCEPT !.alone = FALSE]
                     ELSE tasks[t]]
  /\ emitted' = <<>>
  /\ UNCHANGED <<store, rooms, lastDone, faults, recorder>>

At(t, kind, pc) == tasks[t].kind = kind /\ tasks[t].pc = pc

Goto(t, pc) ==
  tasks' = [tasks EXCEPT ![t].pc = pc] /\ UNCHANGED <<lastDone, recorder>>

\* The handler goes on to pc, having done the things named.
Does(t, things, pc) ==
  /\ tasks' = [tasks EXCEPT ![t].pc = pc, ![t].did = @ \o things]
  /\ UNCHANGED <<lastDone, recorder>>

\* An awaited call rejects with error: control passes to the catch block.
Catch(t, error) ==
  /\ tasks' = [tasks EXCEPT ![t].pc = "catch", ![t].error = error]
  /\ emitted' = <<>>
  /\ UNCHANGED <<store, rooms, lastDone, events, recorder>>

\* What is kept of a handler invocation that has returned: where it ended
\* (the pc of its last step), on which session, and with which error.
Done(task) ==
  [kind |-> task.kind, sessionId |-> task.sessionId, pc |-> task.pc,
   error |-> task.error, alone |-> task.alone, before |-> task.before]

\* The handler returns.
Finish(t) ==
  /\ tasks' = [tasks EXCEPT ![t] = Free]
  /\ lastDone' = Done(tasks[t])
  /\ UNCHANGED recorder

\* What an awaited call throws when the model API, or the database, fails.
GatewayError == "GatewayError"
StoreError == "StoreError"

\* An awaited gateway or store call fails with error.
Throws(t, error) ==
  /\ faults < MaxFaults
  /\ faults' = faults + 1
  /\ Catch(t, error)

-----------------------------------------------------------------------------
(* socket.on("session:start") *)

SessionStart(conn, p) ==
  IF ~SessionStartSchema(p)
  THEN Reject(conn, "Invalid session:start payload")
  ELSE Accept([Free EXCEPT !.kind = "session:start", !.pc = "createSession",
                           !.conn = conn, !.sessionId = p.sessionId.s,
                           !.userId = p.userId.s,
                           !.sourceType = p.sourceType.s])

\* await createSession({id, userId, title, sourceType})
SessionStart_createSession(t) ==
  /\ At(t, "session:start", "createSession")
  /\ \/ /\ createSessionError(tasks[t].sessionId, tasks[t].userId) = NULL
        /\ sessions' = createSession(tasks[t].sessionId, tasks[t].userId,
                                     tasks[t].sourceType)
        /\ Goto(t, "join")
        /\ emitted' = <<>>
        /\ UNCHANGED <<chunks, summaries, nextId, rooms, events, faults>>
     \/ /\ createSessionError(tasks[t].sessionId, tasks[t].userId) # NULL
        /\ Catch(t, createSessionError(tasks[t].sessionId, tasks[t].userId))
        /\ UNCHANGED faults
     \/ Throws(t, StoreError)

\* A variant that broadcasts to the room before the sender has joined it.
SessionStart_emitThenJoin(t) ==
  /\ At(t, "session:start", "join")
  /\ rooms' = [rooms EXCEPT ![tasks[t].sessionId] = @ \cup {tasks[t].conn}]
  /\ emitted' = <<StatusEvent(tasks[t].conn, rooms[tasks[t].sessionId],
                              tasks[t].sessionId, "RECORDING")>>
  /\ Finish(t)
  /\ UNCHANGED <<store, events, faults>>

\* socket.join(sessionId); io.to(sessionId).emit("session:status", RECORDING)
SessionStart_join(t) ==
  /\ At(t, "session:start", "join")
  /\ rooms' = [rooms EXCEPT ![tasks[t].sessionId] = @ \cup {tasks[t].conn}]
  /\ emitted' = <<StatusEvent(tasks[t].conn, rooms'[tasks[t].sessionId],
                              tasks[t].sessionId, "RECORDING")>>
  /\ Finish(t)
  /\ UNCHANGED <<store, events, faults>>

SessionStart_catch(t) ==
  /\ At(t, "session:start", "catch")
  /\ emitted' = <<ErrorEvent(tasks[t].conn, "Failed to create session")>>
  /\ Finish(t)
  /\ UNCHANGED <<store, rooms, events, faults>>

-----------------------------------------------------------------------------
(* socket.on("session:audioChunk") *)

AudioChunk(conn, p) ==
  IF ~AudioChunkSchema(p)
  THEN Reject(conn, "Invalid session:audioChunk payload")
  ELSE Accept([Free EXCEPT !.kind = "session:audioChunk", !.pc = "transcribeChunk",
                           !.conn = conn, !.sessionId = p.sessionId.s,
                           !.index = p.index.n, !.startMs = p.startMs.n,
                           !.endMs = p.endMs.n])

\* A variant without the if (!text) return: an empty text is stored too.
AudioChunk_transcribeChunkKeepsEmpty(t) ==
  /\ At(t, "session:audioChunk", "transcribeChunk")
  /\ \/ \E response \in TranscribeResponses(tasks[t].index) :
          /\ tasks' = [tasks EXCEPT ![t].pc = "appendTranscriptChunk",
                                    ![t].text = transcribeChunk(response).text]
          /\ emitted' = <<>>
          /\ UNCHANGED <<store, rooms, lastDone, events, faults, recorder>>
     \/ Throws(t, GatewayError)

\* const {text} = await transcribeChunk(...); if (!text) return;
AudioChunk_transcribeChunk(t) ==
  /\ At(t, "session:audioChunk", "transcribeChunk")
  /\ \/ \E response \in TranscribeResponses(tasks[t].index) :
          LET text == transcribeChunk(response).text
          IN  /\ IF text = <<>>
                 THEN Finish(t)
                 ELSE /\ tasks' = [tasks EXCEPT ![t].pc = "appendTranscriptChunk",
                                                ![t].text = text]
                      /\ UNCHANGED <<lastDone, recorder>>
              /\ emitted' = <<>>
              /\ UNCHANGED <<store, rooms, events, faults>>
     \/ Throws(t, GatewayError)

\* await appendTranscriptChunk({sessionId, index, text, startMs, endMs})
AudioChunk_appendTranscriptChunk(t) ==
  /\ At(t, "session:audioChunk", "appendTranscriptChunk")
  /\ \/ /\ appendTranscriptChunkError(tasks[t].sessionId) = NULL
        /\ chunks' = appendTranscriptChunk(tasks[t].sessionId, tasks[t].index,
                                           tasks[t].text, tasks[t].startMs,
                                           tasks[t].endMs)
        /\ nextId' = nextId + 1
        /\ Goto(t, "emit")
        /\ emitted' = <<>>
        /\ UNCHANGED <<sessions, summaries, rooms, events, faults>>
     \/ /\ appendTranscriptChunkError(tasks[t].sessionId) # NULL
        /\ Catch(t, appendTranscriptChunkError(tasks[t].sessionId))
        /\ UNCHANGED faults
     \/ Throws(t, StoreError)

\* io.to(sessionId).emit("session:partialTranscript", {...})
AudioChunk_emit(t) ==
  /\ At(t, "session:audioChunk", "emit")
  /\ emitted' = <<PartialTranscriptEvent(tasks[t].conn, rooms[tasks[t].sessionId],
                                         tasks[t].sessionId, tasks[t].index,
                                         tasks[t].text, tasks[t].startMs,
                                         tasks[t].endMs)>>
  /\ Finish(t)
  /\ UNCHANGED <<store, rooms, events, faults>>

\* A variant that marks the session ERROR, as the catch of session:stop does.
AudioChunk_catchMarksError(t) ==
  /\ At(t, "session:audioChunk", "catch")
  /\ sessions' = updateSessionStatus(tasks[t].sessionId, "ERROR")
  /\ emitted' = <<ErrorEvent(tasks[t].conn, "Failed to process audio chunk")>>
  /\ Finish(t)
  /\ UNCHANGED <<chunks, summaries, nextId, rooms, events, faults>>

AudioChunk_catch(t) ==
  /\ At(t, "session:audioChunk", "catch")
  /\ emitted' = <<ErrorEvent(tasks[t].conn, "Failed to process audio chunk")>>
  /\ Finish(t)
  /\ UNCHANGED <<store, rooms, events, faults>>

-----------------------------------------------------------------------------
(* socket.on("session:pause") and socket.on("session:resume") *)

SessionPause(conn, p) ==
  IF ~SessionControlSchema(p)
  THEN Reject(conn, "Invalid session:pause payload")
  ELSE Accept([Free EXCEPT !.kind = "session:pause", !.pc = "updateSessionStatus",
                           !.conn = conn, !.sessionId = p.sessionId.s])

\* await updateSessionStatus({sessionId, status: "PAUSED"})
SessionPause_updateSessionStatus(t) ==
  /\ At(t, "session:pause", "updateSessionStatus")
  /\ \/ /\ sessions' = updateSessionStatus(tasks[t].sessionId, "PAUSED")
        /\ Goto(t, "emit")
        /\ emitted' = <<>>
        /\ UNCHANGED <<chunks, summaries, nextId, rooms, events, faults>>
     \/ Throws(t, StoreError)

SessionPause_emit(t) ==
  /\ At(t, "session:pause", "emit")
  /\ emitted' = <<StatusEvent(tasks[t].conn, rooms[tasks[t].sessionId],
                              tasks[t].sessionId, "PAUSED")>>
  /\ Finish(t)
  /\ UNCHANGED <<store, rooms, events, faults>>

SessionPause_catch(t) ==
  /\ At(t, "session:pause", "catch")
  /\ emitted' = <<ErrorEvent(tasks[t].conn, "Failed to pause session")>>
  /\ Finish(t)
  /\ UNCHANGED <<store, rooms, events, faults>>

SessionResume(conn, p) ==
  IF ~SessionControlSchema(p)
  THEN Reject(conn, "Invalid session:resume payload")
  ELSE Accept([Free EXCEPT !.kind = "session:resume", !.pc = "updateSessionStatus",
                           !.conn = conn, !.sessionId = p.sessionId.s])

\* A variant that starts the session over: it drops the session's summary.
SessionResume_updateSessionStatusResets(t) ==
  /\ At(t, "session:resume", "updateSessionStatus")
  /\ \/ /\ sessions' = updateSessionStatus(tasks[t].sessionId, "RECORDING")
        /\ summaries' = summaries \ SummariesOf(tasks[t].sessionId)
        /\ Goto(t, "emit")
        /\ emitted' = <<>>
        /\ UNCHANGED <<chunks, nextId, rooms, events, faults>>
     \/ Throws(t, StoreError)

\* await updateSessionStatus({sessionId, status: "RECORDING"})
SessionResume_updateSessionStatus(t) ==
  /\ At(t, "session:resume", "updateSessionStatus")
  /\ \/ /\ sessions' = updateSessionStatus(tasks[t].sessionId, "RECORDING")
        /\ Goto(t, "emit")
        /\ emitted' = <<>>
        /\ UNCHANGED <<chunks, summaries, nextId, rooms, events, faults>>
     \/ Throws(t, StoreError)

SessionResume_emit(t) ==
  /\ At(t, "session:resume", "emit")
  /\ emitted' = <<StatusEvent(tasks[t].conn, rooms[tasks[t].sessionId],
                              tasks[t].sessionId, "RECORDING")>>
  /\ Finish(t)
  /\ UNCHANGED <<store, rooms, events, faults>>

SessionResume_catch(t) ==
  /\ At(t, "session:resume", "catch")
  /\ emitted' = <<ErrorEvent(tasks[t].conn, "Failed to resume session")>>
  /\ Finish(t)
  /\ UNCHANGED <<store, rooms, events, faults>>

-----------------------------------------------------------------------------
(* socket.on("session:stop") *)

SessionStop(conn, p) ==
  IF ~SessionControlSchema(p)
  THEN Reject(conn, "Invalid session:stop payload")
  ELSE Accept([Free EXCEPT !.kind = "session:stop", !.pc = "updateSessionStatus",
                           !.conn = conn, !.sessionId = p.sessionId.s])

\* A variant that goes on to read the chunks without the PROCESSING broadcast.
SessionStop_updateSessionStatusQuietly(t) ==
  /\ At(t, "session:stop", "updateSessionStatus")
  /\ \/ /\ sessions' = updateSessionStatus(tasks[t].sessionId, "PROCESSING")
        /\ Does(t, <<"write PROCESSING">>, "findMany")
        /\ emitted' = <<>>
        /\ UNCHANGED <<chunks, summaries, nextId, rooms, events, faults>>
     \/ Throws(t, StoreError)

\* await updateSessionStatus({sessionId, status: "PROCESSING"})
SessionStop_updateSessionStatus(t) ==
  /\ At(t, "session:stop", "updateSessionStatus")
  /\ \/ /\ sessions' = updateSessionStatus(tasks[t].sessionId, "PROCESSING")
        /\ Does(t, <<"write PROCESSING">>, "emitProcessing")
        /\ emitted' = <<>>
        /\ UNCHANGED <<chunks, summaries, nextId, rooms, events, faults>>
     \/ Throws(t, StoreError)

\* io.to(sessionId).emit("session:status", PROCESSING), then findMany is called
SessionStop_emitProcessing(t) ==
  /\ At(t, "session:stop", "emitProcessing")
  /\ emitted' = <<StatusEvent(tasks[t].conn, rooms[tasks[t].sessionId],
                              tasks[t].sessionId, "PROCESSING")>>
  /\ Does(t, <<"broadcast PROCESSING">>, "findMany")
  /\ UNCHANGED <<store, rooms, events, faults>>

\* A variant that joins the texts with nothing between them.
FullTranscriptUnseparated(rows) ==
  Join([i \in 1 .. Len(rows) |-> rows[i].text], <<>>)

\* chunks.map((chunk) => chunk.text).join(" ")
FullTranscript(rows) == Join([i \in 1 .. Len(rows) |-> rows[i].text], <<" ">>)

\* summarizeTranscript: the prompt sent to the model ends with the transcript
SummaryPrompt(transcript) == <<"<instructions>">> \o transcript

\* A variant that refuses to finalize a session without chunks.
SessionStop_findManyOrThrow(t) ==
  /\ At(t, "session:stop", "findMany")
  /\ \/ \E rows \in findManyChunks(tasks[t].sessionId) :
          IF rows = <<>>
          THEN Catch(t, "EmptyTranscript") /\ UNCHANGED faults
          ELSE /\ tasks' = [tasks EXCEPT
                              ![t].pc = "summarizeTranscript",
                              ![t].did = @ \o <<"read chunks", "call summarizer">>,
                              ![t].chunks = rows,
                              ![t].fullTranscript = FullTranscript(rows),
                              ![t].prompts =
                                 Append(@, SummaryPrompt(FullTranscript(rows)))]
               /\ emitted' = <<>>
               /\ UNCHANGED <<store, rooms, lastDone, events, faults, recorder>>
     \/ Throws(t, StoreError)

\* A variant that reads the first chunk only (findFirst).
SessionStop_findFirst(t) ==
  /\ At(t, "session:stop", "findMany")
  /\ \/ \E rows \in findManyChunks(tasks[t].sessionId) :
          LET first == IF rows = <<>> THEN rows ELSE <<rows[1]>>
          IN  /\ tasks' = [tasks EXCEPT
                             ![t].pc = "summarizeTranscript",
                             ![t].did = @ \o <<"read chunks", "call summarizer">>,
                             ![t].chunks = first,
                             ![t].fullTranscript = FullTranscript(first),
                             ![t].prompts =
                                Append(@, SummaryPrompt(FullTranscript(first)))]
              /\ emitted' = <<>>
              /\ UNCHANGED <<store, rooms, lastDone, events, faults, recorder>>
     \/ Throws(t, StoreError)

\* const chunks = await prisma.transcriptChunk.findMany(...); the transcript is
\* joined, and summarizeTranscript sends its prompt to the model
SessionStop_findMany(t) ==
  /\ At(t, "session:stop", "findMany")
  /\ \/ \E rows \in findManyChunks(tasks[t].sessionId) :
          /\ tasks' = [tasks EXCEPT
                         ![t].pc = "summarizeTranscript",
                         ![t].did = @ \o <<"read chunks", "call summarizer">>,
                         ![t].chunks = rows,
                         ![t].fullTranscript = FullTranscript(rows),
                         ![t].prompts =
                            Append(@, SummaryPrompt(FullTranscript(rows)))]
          /\ emitted' = <<>>
          /\ UNCHANGED <<store, rooms, lastDone, events, faults, recorder>>
     \/ Throws(t, StoreError)

\* const summary = await summarizeTranscript({transcript: fullTranscript}): the
\* model answers, or the call fails
SessionStop_summarizeTranscript(t) ==
  /\ At(t, "session:stop", "summarizeTranscript")
  /\ \/ \E response \in SummaryResponses :
          /\ tasks' = [tasks EXCEPT
                         ![t].pc = "transaction",
                         ![t].response = response,
                         ![t].summary = Some(summarizeTranscript(response))]
          /\ emitted' = <<>>
          /\ UNCHANGED <<store, rooms, lastDone, events, faults, recorder>>
     \/ Throws(t, GatewayError)

\* A variant that issues the two writes one after the other, outside a
\* transaction: the store may fail after the upsert and before the update.
SessionStop_twoWrites(t) ==
  /\ At(t, "session:stop", "transaction")
  /\ \/ /\ completeSessionError(tasks[t].sessionId) = NULL
        /\ sessions' = completeSession(tasks[t].sessionId, "COMPLETED")
        /\ summaries' = upsertSummary(tasks[t].sessionId, tasks[t].summary[1])
        /\ nextId' = nextId + 1
        /\ Does(t, <<"commit">>, "findUniqueOrThrow")
        /\ emitted' = <<>>
        /\ UNCHANGED <<chunks, rooms, events, faults>>
     \/ /\ completeSessionError(tasks[t].sessionId) # NULL
        /\ Catch(t, completeSessionError(tasks[t].sessionId))
        /\ UNCHANGED faults
     \/ /\ completeSessionError(tasks[t].sessionId) = NULL
        /\ faults < MaxFaults
        /\ faults' = faults + 1
        /\ summaries' = upsertSummary(tasks[t].sessionId, tasks[t].summary[1])
        /\ nextId' = nextId + 1
        /\ tasks' = [tasks EXCEPT ![t].pc = "catch", ![t].error = StoreError]
        /\ emitted' = <<>>
        /\ UNCHANGED <<sessions, chunks, rooms, lastDone, events, recorder>>

\* completeSessionWithSummary: await prisma.$transaction([session.update,
\* summary.upsert]); both writes are applied or neither
SessionStop_transaction(t) ==
  /\ At(t, "session:stop", "transaction")
  /\ \/ /\ completeSessionError(tasks[t].sessionId) = NULL
        /\ sessions' = completeSession(tasks[t].sessionId, "COMPLETED")
        /\ summaries' = upsertSummary(tasks[t].sessionId, tasks[t].summary[1])
        /\ nextId' = nextId + 1
        /\ Does(t, <<"commit">>, "findUniqueOrThrow")
        /\ emitted' = <<>>
        /\ UNCHANGED <<chunks, rooms, events, faults>>
     \/ /\ completeSessionError(tasks[t].sessionId) # NULL
        /\ Catch(t, completeSessionError(tasks[t].sessionId))
        /\ UNCHANGED faults
     \/ Throws(t, StoreError)

\* completeSessionWithSummary: await prisma.session.findUniqueOrThrow(...)
SessionStop_findUniqueOrThrow(t) ==
  /\ At(t, "session:stop", "findUniqueOrThrow")
  /\ \/ \E found \in findSessionWithRelations(tasks[t].sessionId) :
          /\ tasks' = [tasks EXCEPT ![t].pc = "emitCompleted",
                                    ![t].completedSession = Some(found)]
          /\ emitted' = <<>>
          /\ UNCHANGED <<store, rooms, lastDone, events, faults, recorder>>
     \/ /\ findSessionWithRelations(tasks[t].sessionId) = {}
        /\ Catch(t, "P2025")
        /\ UNCHANGED faults
     \/ Throws(t, StoreError)

\* io.to(sessionId).emit("session:completed", {sessionId, session})
SessionStop_emitCompleted(t) ==
  /\ At(t, "session:stop", "emitCompleted")
  /\ emitted' = <<CompletedEvent(tasks[t].conn, rooms[tasks[t].sessionId],
                                 tasks[t].sessionId,
                                 tasks[t].completedSession[1])>>
  /\ Finish(t)
  /\ UNCHANGED <<store, rooms, events, faults>>

\* A variant that rolls the session back: it deletes the session's chunks.
SessionStop_catchRollsBack(t) ==
  /\ At(t, "session:stop", "catch")
  /\ \/ /\ sessions' = updateSessionStatus(tasks[t].sessionId, "ERROR")
        /\ Does(t, <<"write ERROR">>, "emitError")
        /\ UNCHANGED faults
     \/ /\ faults < MaxFaults
        /\ faults' = faults + 1
        /\ Does(t, <<"write ERROR fails">>, "emitError")
        /\ UNCHANGED sessions
  /\ chunks' = chunks \ ChunksOf(tasks[t].sessionId)
  /\ emitted' = <<>>
  /\ UNCHANGED <<summaries, nextId, rooms, events>>

\* A variant without the .catch(() => {}): when the ERROR write fails, the
\* handler ends there with an unhandled rejection.
SessionStop_catchRethrows(t) ==
  /\ At(t, "session:stop", "catch")
  /\ \/ /\ sessions' = updateSessionStatus(tasks[t].sessionId, "ERROR")
        /\ Does(t, <<"write ERROR">>, "emitError")
        /\ UNCHANGED faults
     \/ /\ faults < MaxFaults
        /\ faults' = faults + 1
        /\ Finish(t)
        /\ UNCHANGED sessions
  /\ emitted' = <<>>
  /\ UNCHANGED <<chunks, summaries, nextId, rooms, events>>

\* catch: await updateSessionStatus({sessionId, status: "ERROR"}).catch(() => {})
SessionStop_catch(t) ==
  /\ At(t, "session:stop", "catch")
  /\ \/ /\ sessions' = updateSessionStatus(tasks[t].sessionId, "ERROR")
        /\ Does(t, <<"write ERROR">>, "emitError")
        /\ UNCHANGED faults
     \/ /\ faults < MaxFaults
        /\ faults' = faults + 1
        /\ Does(t, <<"write ERROR fails">>, "emitError")
        /\ UNCHANGED sessions
  /\ emitted' = <<>>
  /\ UNCHANGED <<chunks, summaries, nextId, rooms, events>>

\* catch: io.to(sessionId).emit("session:status", ERROR); socket.emit("session:error")
SessionStop_emitError(t) ==
  /\ At(t, "session:stop", "emitError")
  /\ emitted' = <<StatusEvent(tasks[t].conn, rooms[tasks[t].sessionId],
                              tasks[t].sessionId, "ERROR"),
                  ErrorEvent(tasks[t].conn, "Failed to finalize session")>>
  /\ Finish(t)
  /\ UNCHANGED <<store, rooms, events, faults>>

-----------------------------------------------------------------------------
(***************************************************************************)
(* The recorder of the client: the state machine of the lifecycle of one   *)
(* session, and the handlers that feed it the events of the server.        *)
(***************************************************************************)
RecorderStates ==
  {"idle", "recording", "paused", "reconnecting", "processing", "completed",
   "error"}

RecorderEvents ==
  {"START", "PAUSE", "RESUME", "STOP", "PROCESSING", "COMPLETED",
   "SOCKET_DISCONNECTED", "SOCKET_RECONNECTED", "ERROR", "RESET"}

\* The state after `event` in `state`; an event the state does not list is
\* ignored.
recorderMachine(state, event) ==
  CASE state = "idle" /\ event = "START" -> "recording"
    [] state = "recording" /\ event = "PAUSE" -> "paused"
    [] state = "recording" /\ event = "STOP" -> "processing"
    [] state = "recording" /\ event = "SOCKET_DISCONNECTED" -> "reconnecting"
    [] state = "recording" /\ event = "ERROR" -> "error"
    [] state = "paused" /\ event = "RESUME" -> "recording"
    [] state = "paused" /\ event = "STOP" -> "processing"
    [] state = "reconnecting" /\ event = "SOCKET_RECONNECTED" -> "recording"
    [] state = "reconnecting" /\ event = "STOP" -> "processing"
    [] state = "processing" /\ event = "COMPLETED" -> "completed"
    [] state = "processing" /\ event = "ERROR" -> "error"
    [] state = "completed" /\ event = "START" -> "recording"
    [] state = "completed" /\ event = "RESET" -> "idle"
    [] state = "error" /\ event = "RESET" -> "idle"
    [] OTHER -> state

handleStatus(state, payload) ==
  IF payload.status \in {"PROCESSING", "COMPLETED", "ERROR"}
  THEN recorderMachine(state, payload.status)
  ELSE state

handleError(state, payload) == recorderMachine(state, "ERROR")

\* The state of the recorder of connection conn after the handlers it has
\* registered on its socket have run on the events evs, in their order.
RECURSIVE Received(_, _, _)
Received(state, conn, evs) ==
  IF evs = <<>> THEN state
  ELSE LET e == Head(evs)
           next ==
             IF conn \notin e.to THEN state
             ELSE IF e.type = "session:status" THEN handleStatus(state, e)
             ELSE IF e.type = "session:error" THEN handleError(state, e)
             ELSE state
       IN  Received(next, conn, Tail(evs))

\* An event sent to the machine; a key the event does not have is NULL.
RecorderEvent(type, sessionId, sourceType, message) ==
  [type |-> type, sessionId |-> sessionId, sourceType |-> sourceType,
   message |-> message]

Plain(type) == RecorderEvent(type, NULL, NULL, NULL)

\* The initial context of the machine; NULL is undefined.
RecorderContext ==
  [sessionId |-> NULL, sourceType |-> "MIC", statusMessage |-> "Idle",
   errorMessage |-> NULL]

\* The actions of the machine, each as the context it leaves.
assignStart(context, event) ==
  IF event.type # "START" THEN context
  ELSE [context EXCEPT !.sessionId = event.sessionId,
                       !.sourceType = event.sourceType,
                       !.statusMessage = "Recording",
                       !.errorMessage = NULL]

assignError(context, event) ==
  IF event.type # "ERROR" THEN context
  ELSE [context EXCEPT !.errorMessage = event.message,
                       !.statusMessage = "Error"]

clearError(context) ==
  [context EXCEPT !.errorMessage = NULL, !.statusMessage = "Idle"]

setStatusRecording(context) == [context EXCEPT !.statusMessage = "Recording"]

setStatusPaused(context) == [context EXCEPT !.statusMessage = "Paused"]

setStatusProcessing(context) ==
  [context EXCEPT !.statusMessage = "Processing summary..."]

setStatusCompleted(context) == [context EXCEPT !.statusMessage = "Completed"]

setStatusReconnecting(context) ==
  [context EXCEPT !.statusMessage = "Reconnecting..."]

\* An undefined or empty errorMessage is falsy.
setStatusError(context) ==
  IF context.errorMessage \in {NULL, ""}
  THEN [context EXCEPT !.errorMessage = "Unexpected error"]
  ELSE context

\* The actions that `event` runs in `state`: those of the transition, then
\* the entry actions of the state entered.
recorderActions(state, event) ==
  CASE state = "idle" /\ event = "START" -> <<"assignStart">>
    [] state = "recording" /\ event = "PAUSE" -> <<"setStatusPaused">>
    [] state = "recording" /\ event = "STOP" -> <<"setStatusProcessing">>
    [] state = "recording" /\ event = "SOCKET_DISCONNECTED" ->
         <<"setStatusReconnecting">>
    [] state = "recording" /\ event = "ERROR" ->
         <<"assignError", "setStatusError">>
    [] state = "paused" /\ event = "RESUME" -> <<"setStatusRecording">>
    [] state = "paused" /\ event = "STOP" -> <<"setStatusProcessing">>
    [] state = "reconnecting" /\ event = "SOCKET_RECONNECTED" ->
         <<"setStatusRecording">>
    [] state = "reconnecting" /\ event = "STOP" -> <<"setStatusProcessing">>
    [] state = "processing" /\ event = "COMPLETED" -> <<"setStatusCompleted">>
    [] state = "processing" /\ event = "ERROR" ->
         <<"assignError", "setStatusError">>
    [] state = "completed" /\ event = "START" -> <<"assignStart">>
    [] state = "completed" /\ event = "RESET" -> <<>>
    [] state = "error" /\ event = "RESET" -> <<"clearError">>
    [] OTHER -> <<>>

RecorderAction(name, context, event) ==
  CASE name = "assignStart" -> assignStart(context, event)
    [] name = "assignError" -> assignError(context, event)
    [] name = "clearError" -> clearError(context)
    [] name = "setStatusRecording" -> setStatusRecording(context)
    [] name = "setStatusPaused" -> setStatusPaused(context)
    [] name = "setStatusProcessing" -> setStatusProcessing(context)
    [] name = "setStatusCompleted" -> setStatusCompleted(context)
    [] name = "setStatusReconnecting" -> setStatusReconnecting(context)
    [] name = "setStatusError" -> setStatusError(context)

RECURSIVE RecorderActions(_, _, _)
RecorderActions(names, context, event) ==
  IF names = <<>> THEN context
  ELSE RecorderActions(Tail(names), RecorderAction(Head(names), context, event),
                       event)

\* send(event): the machine (its state and context) after the event.
send(machine, event) ==
  [state |-> recorderMachine(machine.state, event.type),
   context |-> RecorderActions(recorderActions(machine.state, event.type),
                               machine.context, event)]

-----------------------------------------------------------------------------
(* The Recorder component: the machine, the React state and refs, the      *)
(* MediaRecorder and the socket of one browser tab.                        *)

\* A message the component has emitted on its socket.
Sent(type, sessionId, index) ==
  [type |-> type, sessionId |-> sessionId, index |-> index]

NoTranscript == [i \in Indexes |-> None]

\* The component as mounted: nothing recorded, the socket connected.
RecorderMounted ==
  [machine |-> [state |-> "idle", context |-> RecorderContext],
   currentSource |-> "MIC",
   transcriptChunks |-> NoTranscript,   \* an array, None where it has a hole
   summaryText |-> NULL,
   mediaRecorder |-> NULL,              \* mediaRecorderRef: NULL or its state
   activeSessionId |-> NULL,            \* activeSessionIdRef
   chunkIndex |-> 0,                    \* chunkIndexRef
   flushing |-> NULL,                   \* session of a stopped MediaRecorder
                                        \* whose last segment is to come
   used |-> {},                         \* the ids uuidv4 has given
   connected |-> TRUE,
   sent |-> <<>>]                       \* the messages emitted by the latest step

\* The payloads of the events of the server.
Statuses == {"RECORDING", "PAUSED", "PROCESSING", "COMPLETED", "ERROR"}

StatusPayloads == [sessionId : SessionIds, status : Statuses]

PartialTranscriptPayloads ==
  [sessionId : SessionIds, index : Indexes, text : {Utterance(i) : i \in Indexes}]

CompletedPayloads == [sessionId : SessionIds, content : {NULL, "summary"}]

ErrorPayloads ==
  [message : {NULL, "Failed to process audio chunk",
              "Failed to finalize session"}]

\* What acquireStream or new MediaRecorder may throw: an Error with a message
\* (possibly empty), or something that is not an Error.
StartFailures == {"Permission denied", "", NULL}

\* The conditions under which the buttons are rendered.
isRecording ==
  recorder.machine.state = "recording" \/ recorder.mediaRecorder # NULL

isPaused == recorder.machine.state = "paused"

isProcessing == recorder.machine.state = "processing"

\* The array joined to the text shown: a hole gives an empty text.
RECURSIVE SlotTexts(_, _)
SlotTexts(transcriptChunks, i) ==
  IF i > MaxIndex THEN <<>>
  ELSE <<IF transcriptChunks[i] = None THEN <<>>
         ELSE transcriptChunks[i][1].text>>
       \o SlotTexts(transcriptChunks, i + 1)

ArrayLength(transcriptChunks) ==
  IF \A i \in Indexes : transcriptChunks[i] = None THEN 0
  ELSE 1 + CHOOSE i \in Indexes :
             /\ transcriptChunks[i] # None
             /\ \A j \in Indexes : transcriptChunks[j] # None => j <= i

transcriptText(transcriptChunks) ==
  Join(SubSeq(SlotTexts(transcriptChunks, 0), 1, ArrayLength(transcriptChunks)),
       <<" ">>)

\* A step of the component: the component becomes r, the server stands still.
Renders(r) == recorder' = r /\ UNCHANGED server

Recorder_setCurrentSource(source) ==
  /\ ~isRecording
  /\ Renders([recorder EXCEPT !.currentSource = source, !.sent = <<>>])

\* startRecording fails before the MediaRecorder exists.
Recorder_startRecording_catch(sessionId, failure) ==
  /\ ~isRecording /\ ~isProcessing
  /\ sessionId \notin recorder.used
  /\ Renders([recorder EXCEPT
       !.activeSessionId = sessionId,
       !.used = @ \cup {sessionId},
       !.machine = send(@, RecorderEvent("ERROR", NULL, NULL,
                            IF failure = NULL
                            THEN "Failed to start recording." ELSE failure)),
       !.sent = <<>>])

Recorder_startRecording(sessionId) ==
  /\ ~isRecording /\ ~isProcessing
  /\ sessionId \notin recorder.used
  /\ Renders([recorder EXCEPT
       !.activeSessionId = sessionId,
       !.used = @ \cup {sessionId},
       !.chunkIndex = 0,
       !.transcriptChunks = NoTranscript,
       !.summaryText = NULL,
       !.mediaRecorder = "recording",
       !.sent = <<Sent("session:start", sessionId, NULL)>>,
       !.machine = send(@, RecorderEvent("START", sessionId,
                                         recorder.currentSource, NULL))])

\* recorder.ondataavailable: a segment of the MediaRecorder that is recording.
Recorder_ondataavailable ==
  /\ recorder.mediaRecorder = "recording"
  /\ recorder.chunkIndex <= MaxIndex
  /\ Renders([recorder EXCEPT
       !.chunkIndex = @ + 1,
       !.sent = <<Sent("session:audioChunk", recorder.activeSessionId,
                       recorder.chunkIndex)>>])

\* recorder.ondataavailable: the last segment of a MediaRecorder that was
\* stopped, for the session it was created for.
Recorder_ondataavailable_last ==
  /\ recorder.flushing # NULL
  /\ recorder.chunkIndex <= MaxIndex
  /\ Renders([recorder EXCEPT
       !.flushing = NULL,
       !.chunkIndex = @ + 1,
       !.sent = <<Sent("session:audioChunk", recorder.flushing,
                       recorder.chunkIndex)>>])

\* recorder.onerror: the MediaRecorder fails and becomes inactive.
Recorder_onerror ==
  /\ recorder.mediaRecorder \in {"recording", "paused"}
  /\ Renders([recorder EXCEPT
       !.mediaRecorder = "inactive",
       !.machine = send(@, RecorderEvent("ERROR", NULL, NULL,
                                         "MediaRecorder error occurred.")),
       !.sent = <<>>])

Recorder_pauseRecording ==
  /\ isRecording
  /\ IF recorder.mediaRecorder # "recording"
     THEN Renders([recorder EXCEPT !.sent = <<>>])
     ELSE Renders([recorder EXCEPT
            !.mediaRecorder = "paused",
            !.machine = send(@, Plain("PAUSE")),
            !.sent = IF recorder.activeSessionId = NULL THEN <<>>
                     ELSE <<Sent("session:pause", recorder.activeSessionId,
                                 NULL)>>])

Recorder_resumeRecording ==
  /\ isPaused
  /\ IF recorder.mediaRecorder # "paused"
     THEN Renders([recorder EXCEPT !.sent = <<>>])
     ELSE Renders([recorder EXCEPT
            !.mediaRecorder = "recording",
            !.machine = send(@, Plain("RESUME")),
            !.sent = IF recorder.activeSessionId = NULL THEN <<>>
                     ELSE <<Sent("session:resume", recorder.activeSessionId,
                                 NULL)>>])

Recorder_stopRecording ==
  /\ isRecording \/ isPaused
  /\ Renders([recorder EXCEPT
       !.flushing = IF recorder.mediaRecorder \in {"recording", "paused"}
                    THEN recorder.activeSessionId ELSE @,
       !.mediaRecorder = NULL,
       !.machine = send(@, Plain("STOP")),
       !.sent = IF recorder.activeSessionId = NULL THEN <<>>
                ELSE <<Sent("session:stop", recorder.activeSessionId, NULL)>>])

\* socket.on("session:status", handleStatus)
Recorder_handleStatus(payload) ==
  /\ recorder.connected
  /\ Renders([recorder EXCEPT
       !.machine = IF payload.status = "PROCESSING"
                   THEN send(@, Plain("PROCESSING"))
                   ELSE IF payload.status = "COMPLETED"
                   THEN send(@, Plain("COMPLETED"))
                   ELSE IF payload.status = "ERROR"
                   THEN send(@, RecorderEvent("ERROR", NULL, NULL,
                          "Session failed while processing on the server."))
                   ELSE @,
       !.sent = <<>>])

\* A variant that appends the chunk: it takes the first free slot.
handlePartialTranscriptAppended(prev, payload) ==
  IF \A i \in Indexes : prev[i] # None THEN prev
  ELSE LET free == CHOOSE i \in Indexes :
                     /\ prev[i] = None
                     /\ \A j \in Indexes : prev[j] = None => i <= j
       IN  [prev EXCEPT ![free] = Some([index |-> payload.index,
                                        text |-> payload.text])]

\* next[payload.index] = {index, text}: the array with the chunk in its slot.
handlePartialTranscript(prev, payload) ==
  [prev EXCEPT ![payload.index] = Some([index |-> payload.index,
                                        text |-> payload.text])]

\* socket.on("session:partialTranscript", handlePartialTranscript)
Recorder_handlePartialTranscript(payload) ==
  /\ recorder.connected
  /\ Renders([recorder EXCEPT
       !.transcriptChunks = handlePartialTranscript(@, payload),
       !.sent = <<>>])

\* socket.on("session:completed", handleCompleted)
Recorder_handleCompleted(payload) ==
  /\ recorder.connected
  /\ Renders([recorder EXCEPT !.summaryText = payload.content,
                              !.sent = <<>>])

\* socket.on("session:error", handleError)
Recorder_handleError(payload) ==
  /\ recorder.connected
  /\ Renders([recorder EXCEPT
       !.machine = send(@, RecorderEvent("ERROR", NULL, NULL,
                            IF payload.message = NULL
                            THEN "An unknown error occurred."
                            ELSE payload.message)),
       !.sent = <<>>])

\* socket.on("disconnect", handleDisconnect)
Recorder_handleDisconnect ==
  /\ recorder.connected
  /\ Renders([recorder EXCEPT !.connected = FALSE,
                              !.machine = send(@, Plain("SOCKET_DISCONNECTED")),
                              !.sent = <<>>])

\* socket.on("connect", handleConnect)
Recorder_handleConnect ==
  /\ ~recorder.connected
  /\ Renders([recorder EXCEPT !.connected = TRUE,
                              !.machine = send(@, Plain("SOCKET_RECONNECTED")),
                              !.sent = <<>>])


-----------------------------------------------------------------------------
(* The server *)

\* The server has just started on an empty database.
InitFresh ==
  /\ sessions = {}
  /\ chunks = {}
  /\ summaries = {}
  /\ nextId = 1
  /\ rooms = [s \in SessionIds |-> {}]
  /\ emitted = <<>>
  /\ lastDone = Done(Free)

NoRows == [sessions |-> {}, chunks |-> {}, summaries |-> {}]

\* Connection c1 has started session s1 from the microphone: the state that
\* its session:start leaves.
InitRecording ==
  /\ sessions = {SessionRow("s1", "u1", "MIC")}
  /\ chunks = {}
  /\ summaries = {}
  /\ nextId = 1
  /\ rooms = [s \in SessionIds |-> IF s = "s1" THEN {"c1"} ELSE {}]
  /\ emitted = <<StatusEvent("c1", {"c1"}, "s1", "RECORDING")>>
  /\ lastDone = Done([Free EXCEPT !.kind = "session:start", !.pc = "join",
                                  !.sessionId = "s1",
                                  !.before = Some(NoRows)])

ChunkRow(id, sessionId, index, text) ==
  [id |-> id, sessionId |-> sessionId, index |-> index, text |-> text,
   startMs |-> index * 10, endMs |-> index * 10 + 10]

\* Session s1 has since received two segments, "hello" with index 0 and "world"
\* with index 1, stored in the order of their indexes or in the opposite order.
InitTranscribed ==
  /\ sessions = {SessionRow("s1", "u1", "MIC")}
  /\ summaries = {}
  /\ nextId = 3
  /\ rooms = [s \in SessionIds |-> IF s = "s1" THEN {"c1"} ELSE {}]
  /\ \E first \in {0, 1} :
       LET second == 1 - first
       IN  /\ chunks = {ChunkRow(1, "s1", first, Utterance(first)),
                        ChunkRow(2, "s1", second, Utterance(second))}
           /\ emitted = <<PartialTranscriptEvent("c1", {"c1"}, "s1", second,
                              Utterance(second), second * 10, second * 10 + 10)>>
           /\ lastDone =
                Done([Free EXCEPT
                        !.kind = "session:audioChunk", !.pc = "emit",
                        !.sessionId = "s1",
                        !.before =
                           Some([sessions |-> {SessionRow("s1", "u1", "MIC")},
                                 chunks |-> {ChunkRow(1, "s1", first,
                                                      Utterance(first))},
                                 summaries |-> {}])])

\* The server is observed from one of these states, with no handler in flight.
\* Each is reached from the one before it within MaxEvents inbound events
\* (RecordingIsUnreached, TranscribedInOrderIsUnreached and
\* TranscribedOutOfOrderIsUnreached are violated).
Init ==
  /\ InitFresh \/ InitRecording \/ InitTranscribed
  /\ tasks = [t \in TaskIds |-> Free]
  /\ events = 0
  /\ faults = 0
  /\ recorder = RecorderMounted

Dispatch ==
  \E conn \in Conns :
    \/ \E p \in StartPayloads : SessionStart(conn, p)
    \/ \E p \in AudioChunkPayloads : AudioChunk(conn, p)
    \/ \E p \in ControlPayloads : SessionPause(conn, p)
    \/ \E p \in ControlPayloads : SessionResume(conn, p)
    \/ \E p \in ControlPayloads : SessionStop(conn, p)

Resume ==
  \E t \in TaskIds :
    \/ SessionStart_createSession(t)
    \/ SessionStart_join(t)
    \/ SessionStart_catch(t)
    \/ AudioChunk_transcribeChunk(t)
    \/ AudioChunk_appendTranscriptChunk(t)
    \/ AudioChunk_emit(t)
    \/ AudioChunk_catch(t)
    \/ SessionPause_updateSessionStatus(t)
    \/ SessionPause_emit(t)
    \/ SessionPause_catch(t)
    \/ SessionResume_updateSessionStatus(t)
    \/ SessionResume_emit(t)
    \/ SessionResume_catch(t)
    \/ SessionStop_updateSessionStatus(t)
    \/ SessionStop_emitProcessing(t)
    \/ SessionStop_findMany(t)
    \/ SessionStop_summarizeTranscript(t)
    \/ SessionStop_transaction(t)
    \/ SessionStop_findUniqueOrThrow(t)
    \/ SessionStop_emitCompleted(t)
    \/ SessionStop_catch(t)
    \/ SessionStop_emitError(t)

Next == Dispatch \/ Resume

Spec == Init /\ [][Next]_vars

\* The server from an empty database, and from a session just started.
SpecFresh ==
  InitFresh /\ tasks = [t \in TaskIds |-> Free] /\ events = 0 /\ faults = 0
  /\ recorder = RecorderMounted /\ [][Next]_vars

SpecRecording ==
  InitRecording /\ tasks = [t \in TaskIds |-> Free] /\ events = 0 /\ faults = 0
  /\ recorder = RecorderMounted /\ [][Next]_vars

\* Violated under SpecFresh: InitRecording is reached from InitFresh.
RecordingIsUnreached == ~(InitRecording /\ InFlight = {})

\* Violated under SpecRecording: InitTranscribed is reached from InitRecording,
\* in either order of storing.
TranscribedInOrderIsUnreached ==
  ~(InitTranscribed /\ InFlight = {} /\ \E r \in chunks : r.id = 1 /\ r.index = 0)

TranscribedOutOfOrderIsUnreached ==
  ~(InitTranscribed /\ InFlight = {} /\ \E r \in chunks : r.id = 1 /\ r.index = 1)

-----------------------------------------------------------------------------
(* The transport of a client drops and comes back.                          *)

\* The socket a handler was called on, once that socket has disconnected.
Gone == "gone"

\* The socket of conn disconnects: Socket.io takes it out of every room, and
\* the handlers in flight keep the socket that is gone. The client connects
\* anew: the connection listener registers the handlers on the new socket and
\* joins no room; handleConnect of the client emits nothing.
Reconnect(conn) ==
  /\ events < MaxEvents
  /\ events' = events + 1
  /\ rooms' = [id \in SessionIds |-> rooms[id] \ {conn}]
  /\ tasks' = [t \in TaskIds |->
                 IF tasks[t].conn = conn
                 THEN [tasks[t] EXCEPT !.conn = Gone, !.alone = FALSE]
                 ELSE tasks[t]]
  /\ emitted' = <<>>
  /\ UNCHANGED <<store, lastDone, faults, recorder>>

\* The server with session s1 of connection c1 under way, and clients whose
\* transport may drop.
InitReconnect ==
  /\ InitRecording \/ InitTranscribed
  /\ tasks = [t \in TaskIds |-> Free]
  /\ events = 0
  /\ faults = 0
  /\ recorder = RecorderMounted

NextReconnect == Next \/ \E conn \in Conns : Reconnect(conn)

SpecReconnect == InitReconnect /\ [][NextReconnect]_vars

-----------------------------------------------------------------------------
(* The Recorder component by itself: the user presses its buttons, the      *)
(* MediaRecorder and the socket call its handlers, and the events of the    *)
(* server arrive in any order.                                              *)

InitRecorder ==
  /\ InitFresh
  /\ tasks = [t \in TaskIds |-> Free]
  /\ events = 0
  /\ faults = 0
  /\ recorder = RecorderMounted

NextRecorder ==
  \/ \E source \in {"MIC", "TAB"} : Recorder_setCurrentSource(source)
  \/ \E sessionId \in SessionIds :
       \E failure \in StartFailures :
         Recorder_startRecording_catch(sessionId, failure)
  \/ \E sessionId \in SessionIds : Recorder_startRecording(sessionId)
  \/ Recorder_ondataavailable
  \/ Recorder_ondataavailable_last
  \/ Recorder_onerror
  \/ Recorder_pauseRecording
  \/ Recorder_resumeRecording
  \/ Recorder_stopRecording
  \/ \E payload \in StatusPayloads : Recorder_handleStatus(payload)
  \/ \E payload \in PartialTranscriptPayloads :
       Recorder_handlePartialTranscript(payload)
  \/ \E payload \in CompletedPayloads : Recorder_handleCompleted(payload)
  \/ \E payload \in ErrorPayloads : Recorder_handleError(payload)
  \/ Recorder_handleDisconnect
  \/ Recorder_handleConnect

SpecRecorder == InitRecorder /\ [][NextRecorder]_vars

-----------------------------------------------------------------------------
(* Properties *)

Range(seq) == {seq[i] : i \in 1 .. Len(seq)}

IsStop(t) == tasks[t].kind = "session:stop"

\* Where a session:stop handler is once it has joined the transcript and
\* called the summarizer, and once its transaction has committed.
StopHasTranscript ==
  {"summarizeTranscript", "transaction", "findUniqueOrThrow", "emitCompleted"}
StopHasCommitted == {"findUniqueOrThrow", "emitCompleted"}
StopHasFailed == {"catch", "emitError"}

StatusOf(id) == {r.status : r \in SessionsOf(id)}

\* The session:stop handler t runs by itself on a session recorded from the
\* microphone whose stored chunks are "hello" with index 0 and then "world"
\* with index 1.
HelloWorldRun(t) ==
  /\ IsStop(t)
  /\ tasks[t].alone
  /\ \E r \in SessionsOf(tasks[t].sessionId) : r.sourceType = "MIC"
  /\ \E a, b \in ChunksOf(tasks[t].sessionId) :
       /\ ChunksOf(tasks[t].sessionId) = {a, b}
       /\ a.id < b.id
       /\ a.index = 0 /\ a.text = <<"hello">>
       /\ b.index = 1 /\ b.text = <<"world">>

\* C1: in the run start(S, MIC), audioChunk(S, 0, "hello"), audioChunk(S, 1,
\* "world"), stop(S), each handler finishing before the next event: unless a
\* gateway or store call fails, the stop handler does not fail; the transcript
\* it passes to the summarizer, once and in the prompt, is "hello world"; and
\* once it has committed, the status of S is COMPLETED and S has exactly one
\* Summary row.
HelloWorldFinalization ==
  \A t \in TaskIds :
    HelloWorldRun(t) =>
      /\ tasks[t].pc \in StopHasFailed =>
           tasks[t].error \in {GatewayError, StoreError}
      /\ tasks[t].pc \in StopHasTranscript =>
           /\ tasks[t].fullTranscript = <<"hello", " ", "world">>
           /\ tasks[t].prompts = << <<"<instructions>", "hello", " ", "world">> >>
      /\ tasks[t].pc \in StopHasCommitted =>
           /\ StatusOf(tasks[t].sessionId) = {"COMPLETED"}
           /\ Cardinality(SummariesOf(tasks[t].sessionId)) = 1

HelloWorldFinalizationReached ==
  \E t \in TaskIds : HelloWorldRun(t) /\ tasks[t].pc = "emitCompleted"

DistinctIndexes(rows) == \A a, b \in rows : a.index = b.index => a = b

\* The texts of the rows from the lowest index to the highest, a single space
\* between one text and the next.
RECURSIVE AscendingTranscript(_)
AscendingTranscript(rows) ==
  IF rows = {} THEN <<>>
  ELSE LET lowest == CHOOSE r \in rows : \A q \in rows : r.index <= q.index
           rest == AscendingTranscript(rows \ {lowest})
       IN  IF rest = <<>> THEN lowest.text
           ELSE lowest.text \o <<" ">> \o rest

\* C2: whatever the order in which the audioChunk events of a session arrived
\* and were stored, a session:stop handler that reads chunks of pairwise
\* distinct indexes joins their texts in ascending index order with single
\* spaces between them; a handler running by itself reads every stored chunk of
\* the session, each once.
TranscriptInIndexOrder ==
  \A t \in TaskIds :
    IsStop(t) /\ tasks[t].pc \in StopHasTranscript =>
      /\ DistinctIndexes(Range(tasks[t].chunks)) =>
           tasks[t].fullTranscript = AscendingTranscript(Range(tasks[t].chunks))
      /\ tasks[t].alone =>
           /\ Range(tasks[t].chunks) = ChunksOf(tasks[t].sessionId)
           /\ Len(tasks[t].chunks) = Cardinality(ChunksOf(tasks[t].sessionId))

\* A stop has read two chunks that were stored against the order of their
\* indexes.
TranscriptInIndexOrderReached ==
  \E t \in TaskIds :
    /\ IsStop(t) /\ tasks[t].pc \in StopHasTranscript /\ tasks[t].alone
    /\ DistinctIndexes(Range(tasks[t].chunks))
    /\ \E a, b \in Range(tasks[t].chunks) : a.id < b.id /\ a.index > b.index
    /\ tasks[t].fullTranscript = <<"hello", " ", "world">>

\* What a Summary row keeps of a summary.
StoredSummary(summary) ==
  [content |-> summary.content,
   keyPoints |-> StringifyOrNull(summary.keyPoints),
   actionItems |-> StringifyOrNull(summary.actionItems),
   decisions |-> StringifyOrNull(summary.decisions)]

SummaryFields(row) ==
  [content |-> row.content, keyPoints |-> row.keyPoints,
   actionItems |-> row.actionItems, decisions |-> row.decisions]

\* The session:stop handler t runs by itself, right after a session:stop
\* handler that ran by itself on the same session and completed it; the
\* summarizer has returned to t what the first finalization stored.
SecondFinalization(t) ==
  /\ IsStop(t)
  /\ tasks[t].alone
  /\ lastDone.kind = "session:stop"
  /\ lastDone.sessionId = tasks[t].sessionId
  /\ lastDone.pc = "emitCompleted"
  /\ lastDone.alone
  /\ tasks[t].summary # None
  /\ \A r \in tasks[t].before[1].summaries :
       SummaryFields(r) = StoredSummary(tasks[t].summary[1])

\* C3: a second finalization of a session whose chunk set has not changed
\* since the first, the summarizer returning the same output, reads the same
\* chunks as are stored and, once committed, leaves exactly one Summary row
\* for the session, with the content and lists the first run left, and the
\* status COMPLETED.
FinalizationIdempotent ==
  \A t \in TaskIds :
    SecondFinalization(t) =>
      /\ Cardinality(tasks[t].before[1].summaries) = 1
      /\ ChunksOf(tasks[t].sessionId) = tasks[t].before[1].chunks
      /\ tasks[t].pc \in StopHasCommitted =>
           /\ Cardinality(SummariesOf(tasks[t].sessionId)) = 1
           /\ {SummaryFields(r) : r \in SummariesOf(tasks[t].sessionId)} =
                {SummaryFields(r) : r \in tasks[t].before[1].summaries}
           /\ StatusOf(tasks[t].sessionId) = {"COMPLETED"}

FinalizationIdempotentReached ==
  \E t \in TaskIds :
    /\ SecondFinalization(t)
    /\ tasks[t].pc = "emitCompleted"
    /\ ChunksOf(tasks[t].sessionId) # {}

\* The session:resume handler t runs by itself on an existing session, right
\* after a session:pause handler that ran by itself on the same session.
ResumeAfterPause(t) ==
  /\ tasks[t].kind = "session:resume"
  /\ tasks[t].alone
  /\ lastDone.kind = "session:pause"
  /\ lastDone.sessionId = tasks[t].sessionId
  /\ lastDone.alone
  /\ lastDone.before[1].sessions # {}

\* C4: for an existing session, a pause followed by a resume, each handler
\* finishing before the next event: once the resume has written, the stored
\* status is RECORDING, and the session's TranscriptChunk and Summary rows are
\* those from before the pause; the resume fails only if the store fails.
PauseThenResume ==
  \A t \in TaskIds :
    ResumeAfterPause(t) =>
      /\ tasks[t].pc = "catch" => tasks[t].error = StoreError
      /\ ChunksOf(tasks[t].sessionId) = lastDone.before[1].chunks
      /\ SummariesOf(tasks[t].sessionId) = lastDone.before[1].summaries
      /\ tasks[t].pc = "emit" =>
           StatusOf(tasks[t].sessionId) = {"RECORDING"}

\* A session with stored chunks has been paused and resumed.
PauseThenResumeReached ==
  \E t \in TaskIds :
    /\ ResumeAfterPause(t)
    /\ lastDone.pc = "emit"
    /\ tasks[t].pc = "emit"
    /\ ChunksOf(tasks[t].sessionId) # {}

\* The session:stop handler t runs by itself right after the session:start
\* handler that created its session.
StopAfterStart(t) ==
  /\ IsStop(t)
  /\ tasks[t].alone
  /\ lastDone.kind = "session:start"
  /\ lastDone.sessionId = tasks[t].sessionId
  /\ lastDone.pc = "join"
  /\ lastDone.alone

\* C5: start(S) followed by stop(S), with no chunk stored: the stop handler
\* calls the summarizer only after the read, then exactly once and with the
\* empty transcript; unless a gateway or store call fails it does not fail;
\* and once it has committed, S is COMPLETED and has a Summary row.
EmptyTranscriptFinalization ==
  \A t \in TaskIds :
    StopAfterStart(t) =>
      /\ ChunksOf(tasks[t].sessionId) = {}
      /\ tasks[t].pc \in StopHasFailed =>
           tasks[t].error \in {GatewayError, StoreError}
      /\ tasks[t].pc \in {"updateSessionStatus", "emitProcessing", "findMany"} =>
           tasks[t].prompts = <<>>
      /\ tasks[t].pc \in StopHasTranscript =>
           /\ tasks[t].fullTranscript = <<>>
           /\ tasks[t].prompts = << <<"<instructions>">> >>
      /\ tasks[t].pc \in StopHasCommitted =>
           /\ StatusOf(tasks[t].sessionId) = {"COMPLETED"}
           /\ Cardinality(SummariesOf(tasks[t].sessionId)) = 1

EmptyTranscriptFinalizationReached ==
  \E t \in TaskIds :
    /\ StopAfterStart(t)
    /\ tasks[t].pc = "emitCompleted"
    /\ tasks[t].fullTranscript = <<>>
    /\ events = 2

\* The response with the code fences removed and the whitespace around it
\* dropped is not one JSON document.
Unparsable(response) ==
  LET stripped == Trim(Without(response, {FenceJson, Fence}))
  IN  ~(Len(stripped) = 1 /\ stripped[1] \in {DocFull, DocNoSummary, DocNull})

AbsentLists(r) == r.keyPoints = None /\ r.actionItems = None /\ r.decisions = None

\* C6: when the summarization model's response is not parsable as JSON once
\* the code fences are stripped, summarizeTranscript returns the response
\* text (trimmed) as content and no keyPoints, actionItems or decisions; a
\* stop handler running by itself on an existing session then fails only if
\* the store fails, and once it has committed the one Summary row of the
\* session has that content and null lists and the status is COMPLETED.
UnparsableSummaryFallback ==
  \A t \in TaskIds :
    IsStop(t) /\ tasks[t].summary # None /\ Unparsable(tasks[t].response) =>
      /\ tasks[t].summary[1].content = Trim(tasks[t].response)
      /\ AbsentLists(tasks[t].summary[1])
      /\ tasks[t].alone /\ tasks[t].before[1].sessions # {} =>
           /\ tasks[t].pc \in StopHasFailed => tasks[t].error = StoreError
           /\ tasks[t].pc \in StopHasCommitted =>
                /\ StatusOf(tasks[t].sessionId) = {"COMPLETED"}
                /\ Cardinality(SummariesOf(tasks[t].sessionId)) = 1
                /\ \A r \in SummariesOf(tasks[t].sessionId) :
                     r.content = Trim(tasks[t].response) /\ AbsentLists(r)

\* A fenced response that is not JSON has been stored as the summary.
UnparsableSummaryFallbackReached ==
  \E t \in TaskIds :
    /\ IsStop(t) /\ tasks[t].pc = "emitCompleted" /\ tasks[t].alone
    /\ tasks[t].response = <<Fence, "not json", Fence, " ">>
    /\ \E r \in SummariesOf(tasks[t].sessionId) :
         r.content = <<Fence, "not json", Fence>>

\* A session:audioChunk handler whose transcription call threw, while it is in
\* its catch block or after it has returned.
TranscriptionThrew(task) ==
  /\ task.kind = "session:audioChunk"
  /\ task.pc = "catch"
  /\ task.error = GatewayError

\* The session:audioChunk handler t runs by itself on an existing session,
\* right after a handler on that session whose transcription call threw.
ChunkAfterFailure(t) ==
  /\ tasks[t].kind = "session:audioChunk"
  /\ tasks[t].alone
  /\ TranscriptionThrew(lastDone)
  /\ lastDone.alone
  /\ lastDone.sessionId = tasks[t].sessionId
  /\ tasks[t].before[1].sessions # {}

\* C7: a session:audioChunk handler of an existing session whose
\* transcription call throws stores no chunk and leaves the session row as it
\* was, until and after it returns; the audioChunk handled next is transcribed
\* and stored as any other: it fails only if a gateway or store call fails,
\* it stores one new row with its index and text, and what is then broadcast
\* as a partial transcript is a stored chunk, sent to the session's room.
TranscriptionFailureTolerated ==
  /\ \A t \in TaskIds :
       TranscriptionThrew(tasks[t]) /\ tasks[t].alone
         /\ tasks[t].before[1].sessions # {} =>
           RowsOf(tasks[t].sessionId) = tasks[t].before[1]
  /\ InFlight = {} /\ TranscriptionThrew(lastDone) /\ lastDone.alone
       /\ lastDone.before[1].sessions # {} =>
         RowsOf(lastDone.sessionId) = lastDone.before[1]
  /\ \A t \in TaskIds :
       ChunkAfterFailure(t) =>
         /\ tasks[t].pc = "catch" =>
              tasks[t].error \in {GatewayError, StoreError}
         /\ tasks[t].pc \in {"appendTranscriptChunk", "emit"} =>
              tasks[t].text = Utterance(tasks[t].index)
         /\ tasks[t].pc = "emit" =>
              /\ SessionsOf(tasks[t].sessionId) = tasks[t].before[1].sessions
              /\ \E r \in ChunksOf(tasks[t].sessionId) :
                   /\ r \notin tasks[t].before[1].chunks
                   /\ ChunksOf(tasks[t].sessionId) =
                        tasks[t].before[1].chunks \cup {r}
                   /\ r.index = tasks[t].index
                   /\ r.text = tasks[t].text
  /\ \A i \in 1 .. Len(emitted) :
       emitted[i].type = "session:partialTranscript" =>
         /\ emitted[i].to = rooms[emitted[i].sessionId]
         /\ \E r \in ChunksOf(emitted[i].sessionId) :
              /\ r.index = emitted[i].chunk[1].index
              /\ r.text = emitted[i].chunk[1].text

\* After a transcription failure on a session, the next chunk of that session
\* has been transcribed and stored and is about to be broadcast.
TranscriptionFailureToleratedReached ==
  \E t \in TaskIds : ChunkAfterFailure(t) /\ tasks[t].pc = "emit"

NotUuid(v) == v.t # "string" \/ v.s \in {"", "not-a-uuid"}
NotNonNegativeInteger(v) == v.t # "number" \/ ~v.int \/ v.n < 0
NotNonEmptyString(v) == v.t # "string" \/ v.s = ""

MalformedStart(p) ==
  \/ NotUuid(p.sessionId)
  \/ p.userId.t # "string"
  \/ p.title.t \notin {"string", "undefined"}
  \/ p.sourceType.t # "string"
  \/ p.sourceType.s \notin {"MIC", "TAB"}

MalformedAudioChunk(p) ==
  \/ NotUuid(p.sessionId)
  \/ NotNonNegativeInteger(p.index)
  \/ NotNonEmptyString(p.audioBase64)
  \/ NotNonEmptyString(p.mimeType)
  \/ NotNonNegativeInteger(p.startMs)
  \/ NotNonNegativeInteger(p.endMs)

MalformedControl(p) == NotUuid(p.sessionId)

\* The step emits one session:error event, to conn alone, and nothing else
\* happens: no row is written, no room joined, no handler left awaiting a
\* store or gateway call.
OnlyAnErrorTo(conn) ==
  /\ Len(emitted') = 1
  /\ emitted'[1].type = "session:error"
  /\ emitted'[1].to = {conn}
  /\ UNCHANGED <<sessions, chunks, summaries, nextId, rooms, tasks>>

\* C8: for each of the five inbound event kinds, the handling of a payload
\* that fails its schema (a sessionId that is not a UUID string, a negative
\* or non-integer index, startMs or endMs, an empty audio or mimeType, a
\* sourceType other than MIC and TAB, a missing or mistyped field) emits
\* exactly one error event, to the sender, and does nothing else: no store
\* write, no gateway call, no room join, no broadcast.
MalformedPayloadRejected ==
  [][\A conn \in Conns :
       /\ \A p \in StartPayloads :
            MalformedStart(p) /\ SessionStart(conn, p) => OnlyAnErrorTo(conn)
       /\ \A p \in AudioChunkPayloads :
            MalformedAudioChunk(p) /\ AudioChunk(conn, p) => OnlyAnErrorTo(conn)
       /\ \A p \in ControlPayloads :
            /\ MalformedControl(p) /\ SessionPause(conn, p) => OnlyAnErrorTo(conn)
            /\ MalformedControl(p) /\ SessionResume(conn, p) => OnlyAnErrorTo(conn)
            /\ MalformedControl(p) /\ SessionStop(conn, p) => OnlyAnErrorTo(conn)
    ]_vars

\* A malformed session:audioChunk has been answered while a handler of the
\* other connection is in flight.
MalformedPayloadRejectedReached ==
  /\ emitted = <<ErrorEvent("c2", "Invalid session:audioChunk payload")>>
  /\ \E t \in TaskIds : tasks[t].pc # "free" /\ tasks[t].conn = "c1"

\* The createSession step of session:start handler t, taken when the session
\* id has no row and the store does not fail: one row for the id is inserted,
\* with status RECORDING, and nothing is joined or broadcast yet.
CreatesOneRecordingRow(t) ==
  /\ sessions' = sessions \cup
       {[id |-> tasks[t].sessionId, userId |-> tasks[t].userId,
         sourceType |-> tasks[t].sourceType, status |-> "RECORDING",
         completedAt |-> NULL]}
  /\ Cardinality({r \in sessions' : r.id = tasks[t].sessionId}) = 1
  /\ rooms' = rooms
  /\ emitted' = <<>>
  /\ tasks'[t].pc = "join"

\* The step of t that follows: the sender joins the room of the session, whose
\* row exists, and RECORDING is broadcast to the room with the sender in it.
JoinsThenBroadcasts(t) ==
  /\ SessionsOf(tasks[t].sessionId) # {}
  /\ sessions' = sessions
  /\ rooms' = [rooms EXCEPT ![tasks[t].sessionId] = @ \cup {tasks[t].conn}]
  /\ Len(emitted') = 1
  /\ emitted'[1].type = "session:status"
  /\ emitted'[1].sessionId = tasks[t].sessionId
  /\ emitted'[1].status = "RECORDING"
  /\ emitted'[1].to = rooms'[tasks[t].sessionId]
  /\ tasks[t].conn \in emitted'[1].to

FreshStart(t) ==
  /\ SessionStart_createSession(t)
  /\ SessionsOf(tasks[t].sessionId) = {}
  /\ tasks'[t].error # StoreError

\* C9, as stated: a valid start for a session id that has no row (the store
\* not failing) creates exactly one Session row with status RECORDING, then
\* joins the sender to the room, then broadcasts RECORDING to the room, the
\* sender included.
StartCreatesJoinsBroadcasts ==
  [][\A t \in TaskIds :
       /\ FreshStart(t) => CreatesOneRecordingRow(t)
       /\ SessionStart_join(t) => JoinsThenBroadcasts(t)
    ]_vars

\* C9, amended: the same, for a start whose userId is the id of a User row.
StartOfUserCreatesJoinsBroadcasts ==
  [][\A t \in TaskIds :
       /\ FreshStart(t) /\ tasks[t].userId \in Users => CreatesOneRecordingRow(t)
       /\ SessionStart_join(t) => JoinsThenBroadcasts(t)
    ]_vars

\* A start handled from the first event on has created its session, joined
\* its sender and broadcast RECORDING to it.
StartOfUserCreatesJoinsBroadcastsReached ==
  /\ events > 0
  /\ lastDone.kind = "session:start"
  /\ lastDone.pc = "join"
  /\ lastDone.before[1].sessions = {}
  /\ Len(emitted) = 1
  /\ emitted[1].type = "session:status"
  /\ emitted[1].status = "RECORDING"
  /\ emitted[1].from \in emitted[1].to
  /\ SessionsOf(lastDone.sessionId) # {}

\* C10: a start whose session id already has a row when its createSession
\* runs (the row of an earlier start, or of the start it raced with) inserts
\* and changes no Session row, joins no room and broadcasts nothing; its
\* handler then emits one error event, to the sender alone, and still
\* changes no row and no room. No session id ever has two rows.
DuplicateStartRejected ==
  [][\A t \in TaskIds :
       /\ SessionStart_createSession(t) /\ SessionsOf(tasks[t].sessionId) # {} =>
            /\ sessions' = sessions
            /\ rooms' = rooms
            /\ emitted' = <<>>
            /\ tasks'[t].pc = "catch"
       /\ SessionStart_catch(t) =>
            /\ sessions' = sessions
            /\ rooms' = rooms
            /\ Len(emitted') = 1
            /\ emitted'[1].type = "session:error"
            /\ emitted'[1].to = {tasks[t].conn}
       /\ \A id \in SessionIds :
            Cardinality({r \in sessions' : r.id = id}) <= 1
    ]_vars

\* Of two start events that raced for one id, the second has been refused.
DuplicateStartRejectedReached ==
  /\ lastDone.kind = "session:start"
  /\ lastDone.error = "P2002"
  /\ ~lastDone.alone
  /\ lastDone.before[1].sessions = {}
  /\ Len(emitted) = 1
  /\ emitted[1].type = "session:error"
  /\ Cardinality(SessionsOf(lastDone.sessionId)) = 1

\* The place of thing in the sequence did, 0 when it is not there.
Place(did, thing) ==
  IF \E i \in 1 .. Len(did) : did[i] = thing
  THEN CHOOSE i \in 1 .. Len(did) : did[i] = thing
  ELSE 0

\* first is in did, and later is not in did before it.
Precedes(did, first, later) ==
  /\ Place(did, first) > 0
  /\ Place(did, later) > 0 => Place(did, first) < Place(did, later)

\* In what the stop handler t has done, the PROCESSING write comes before the
\* PROCESSING broadcast, and both before the read of the chunks and before the
\* call of the summarizer, when these have happened.
ProcessingBeforeWork(t) ==
  LET did == tasks[t].did
  IN  /\ Place(did, "broadcast PROCESSING") > 0 =>
           Precedes(did, "write PROCESSING", "broadcast PROCESSING")
      /\ Place(did, "read chunks") > 0 =>
           Precedes(did, "broadcast PROCESSING", "read chunks")
      /\ Place(did, "call summarizer") > 0 =>
           Precedes(did, "broadcast PROCESSING", "call summarizer")
      /\ tasks[t].pc = "emitProcessing" /\ tasks[t].alone =>
           StatusOf(tasks[t].sessionId) \subseteq {"PROCESSING"}

ProcessingDone(t) ==
  /\ Place(tasks[t].did, "write PROCESSING") > 0
  /\ Place(tasks[t].did, "broadcast PROCESSING") > 0

\* C11, as stated: for every stop event, PROCESSING is written and broadcast
\* before the chunks are read, before the summarizer is called, and before the
\* handler issues its terminal event, the completed broadcast or the ERROR
\* status broadcast.
ProcessingAlwaysFirst ==
  \A t \in TaskIds :
    IsStop(t) =>
      /\ ProcessingBeforeWork(t)
      /\ tasks[t].pc \in {"emitCompleted", "emitError"} => ProcessingDone(t)

\* C11, amended: the same for every stop event whose PROCESSING write does
\* not fail; a stop whose PROCESSING write fails issues its ERROR broadcast
\* with no PROCESSING written or broadcast before it.
ProcessingFirst ==
  \A t \in TaskIds :
    IsStop(t) =>
      /\ ProcessingBeforeWork(t)
      /\ tasks[t].pc = "emitCompleted" => ProcessingDone(t)
      /\ tasks[t].pc = "emitError" =>
           \/ ProcessingDone(t)
           \/ tasks[t].did \in {<<"write ERROR">>, <<"write ERROR fails">>}
                /\ tasks[t].error = StoreError

\* A stop whose summarizer call failed is about to broadcast ERROR, having
\* written and broadcast PROCESSING and read the chunks.
ProcessingFirstReached ==
  \E t \in TaskIds :
    /\ IsStop(t)
    /\ tasks[t].pc = "emitError"
    /\ tasks[t].error = GatewayError
    /\ ProcessingDone(t)
    /\ Place(tasks[t].did, "call summarizer") > 0

\* C12: when a step of a stop's finalization fails (the PROCESSING write,
\* the chunk read, the summarizer, the transaction or the read that follows
\* it), the handler goes to its catch block and emits nothing in that step;
\* there it attempts the ERROR write and, whether the write is applied or
\* fails, goes on to broadcast status=ERROR to the session's room and emit one
\* error event to the sender, and returns; a handler that has failed never
\* emits the completed event.
StopFailureHandled ==
  [][\A t \in TaskIds :
       /\ IsStop(t) /\ tasks[t].error = NULL /\ tasks'[t].error # NULL =>
            /\ tasks'[t].pc = "catch"
            /\ emitted' = <<>>
       /\ tasks'[t].kind = "session:stop" /\ tasks'[t].error # NULL =>
            tasks'[t].pc \in {"catch", "emitError"}
       /\ SessionStop_catch(t) =>
            /\ tasks'[t].pc = "emitError"
            /\ emitted' = <<>>
            /\ \/ /\ \A r \in sessions' :
                       r.id = tasks[t].sessionId => r.status = "ERROR"
                  /\ {r.id : r \in sessions'} = {r.id : r \in sessions}
                  /\ faults' = faults
               \/ /\ sessions' = sessions
                  /\ faults' = faults + 1
       /\ SessionStop_emitError(t) =>
            /\ tasks[t].error # NULL
            /\ Len(emitted') = 2
            /\ emitted'[1].type = "session:status"
            /\ emitted'[1].status = "ERROR"
            /\ emitted'[1].sessionId = tasks[t].sessionId
            /\ emitted'[1].to = rooms[tasks[t].sessionId]
            /\ emitted'[2].type = "session:error"
            /\ emitted'[2].to = {tasks[t].conn}
            /\ tasks'[t].pc = "free"
       /\ SessionStop_emitCompleted(t) => tasks[t].error = NULL
    ]_vars

\* A stop whose summarizer failed has written ERROR, broadcast it to the room
\* and told its sender, and has returned.
StopFailureHandledReached ==
  /\ lastDone.kind = "session:stop"
  /\ lastDone.pc = "emitError"
  /\ lastDone.error = GatewayError
  /\ StatusOf(lastDone.sessionId) = {"ERROR"}
  /\ Len(emitted) = 2
  /\ emitted[1].status = "ERROR"
  /\ emitted[1].to # {}
  /\ emitted[2].type = "session:error"

CompletedAtOf(rows) == {r.completedAt : r \in rows}

\* The stop handler t, running by itself with a summary in hand, has not
\* committed: its transaction is still to run, or failed.
Uncommitted(t) ==
  /\ IsStop(t)
  /\ tasks[t].alone
  /\ tasks[t].summary # None
  /\ Place(tasks[t].did, "commit") = 0

\* C13: the Summary upsert and the write of COMPLETED with the completion
\* timestamp are applied together or not at all. In every reachable state, a
\* session whose status is COMPLETED has a Summary row, and a session that
\* has a Summary row has had COMPLETED and its timestamp written; and as
\* long as a stop handler running by itself has not committed, also after
\* its transaction failed, the Summary rows and the completion timestamp of
\* its session are as they were when it began and the status is not
\* COMPLETED.
SummaryWithCompletion ==
  /\ \A id \in SessionIds :
       /\ "COMPLETED" \in StatusOf(id) => SummariesOf(id) # {}
       /\ SummariesOf(id) # {} =>
            SessionsOf(id) # {} /\ NULL \notin CompletedAtOf(SessionsOf(id))
  /\ \A t \in TaskIds :
       Uncommitted(t) =>
         /\ SummariesOf(tasks[t].sessionId) = tasks[t].before[1].summaries
         /\ CompletedAtOf(SessionsOf(tasks[t].sessionId)) =
              CompletedAtOf(tasks[t].before[1].sessions)
         /\ "COMPLETED" \notin StatusOf(tasks[t].sessionId)

\* The transaction of a first finalization has failed in the store: the
\* session has no Summary and is not COMPLETED.
SummaryWithCompletionReached ==
  \E t \in TaskIds :
    /\ Uncommitted(t)
    /\ tasks[t].pc = "catch"
    /\ tasks[t].error = StoreError
    /\ SessionsOf(tasks[t].sessionId) # {}
    /\ SummariesOf(tasks[t].sessionId) = {}

\* The session:stop handler t runs by itself on an existing session, right
\* after a session:stop handler that ran by itself on the same session, failed
\* and left the status ERROR.
RetryAfterFailure(t) ==
  /\ IsStop(t)
  /\ tasks[t].alone
  /\ lastDone.kind = "session:stop"
  /\ lastDone.sessionId = tasks[t].sessionId
  /\ lastDone.pc = "emitError"
  /\ lastDone.alone
  /\ \E r \in tasks[t].before[1].sessions : r.status = "ERROR"

\* C14: after a finalization that failed and left the status ERROR, the
\* chunks the session had before it are all still stored, unchanged; a stop
\* handled next fails only if a gateway or store call fails, reads exactly
\* those chunks, and once it has committed the status is COMPLETED and the
\* one Summary row of the session is the summary computed from the
\* transcript of those chunks.
RetryAfterFailedFinalization ==
  \A t \in TaskIds :
    RetryAfterFailure(t) =>
      /\ ChunksOf(tasks[t].sessionId) = lastDone.before[1].chunks
      /\ tasks[t].pc \in StopHasFailed =>
           tasks[t].error \in {GatewayError, StoreError}
      /\ tasks[t].pc \in StopHasTranscript =>
           /\ Range(tasks[t].chunks) = lastDone.before[1].chunks
           /\ DistinctIndexes(lastDone.before[1].chunks) =>
                tasks[t].prompts =
                  << <<"<instructions>">> \o
                       AscendingTranscript(lastDone.before[1].chunks) >>
      /\ tasks[t].pc \in StopHasCommitted =>
           /\ StatusOf(tasks[t].sessionId) = {"COMPLETED"}
           /\ Cardinality(SummariesOf(tasks[t].sessionId)) = 1
           /\ \A r \in SummariesOf(tasks[t].sessionId) :
                SummaryFields(r) = StoredSummary(tasks[t].summary[1])

\* A retried stop has completed a session that holds chunks.
RetryAfterFailedFinalizationReached ==
  \E t \in TaskIds :
    /\ RetryAfterFailure(t)
    /\ tasks[t].pc = "emitCompleted"
    /\ Cardinality(ChunksOf(tasks[t].sessionId)) = 2

\* A step of a session:pause or session:resume handler.
PauseOrResumeStep(t) ==
  \/ SessionPause_updateSessionStatus(t)
  \/ SessionPause_emit(t)
  \/ SessionPause_catch(t)
  \/ SessionResume_updateSessionStatus(t)
  \/ SessionResume_emit(t)
  \/ SessionResume_catch(t)

\* C15: a pause or resume whose session id has no Session row changes
\* nothing in the store: in no step of its handler is a Session,
\* TranscriptChunk or Summary row created or changed; the status write does
\* not fail for want of the row (the handler reaches its catch block only
\* when the store itself fails), and without such a failure the handler
\* emits no error event.
StatusWriteOfMissingSession ==
  [][\A t \in TaskIds :
       PauseOrResumeStep(t) /\ SessionsOf(tasks[t].sessionId) = {} =>
           /\ UNCHANGED <<sessions, chunks, summaries, nextId>>
           /\ tasks'[t].error \in {NULL, StoreError}
           /\ tasks[t].error = NULL =>
                \A i \in 1 .. Len(emitted') :
                  emitted'[i].type # "session:error"
           /\ tasks[t].pc = "updateSessionStatus" /\ tasks'[t].error = NULL =>
                tasks'[t].pc = "emit"
    ]_vars

\* A pause for a session without a row has returned, having emitted only the
\* status event.
StatusWriteOfMissingSessionReached ==
  /\ lastDone.kind = "session:pause"
  /\ lastDone.pc = "emit"
  /\ lastDone.error = NULL
  /\ lastDone.before[1].sessions = {}
  /\ SessionsOf(lastDone.sessionId) = {}
  /\ Len(emitted) = 1
  /\ emitted[1].type = "session:status"
  /\ emitted[1].sessionId = lastDone.sessionId

\* A step of a session:stop handler.
StopStep(t) ==
  \/ SessionStop_updateSessionStatus(t)
  \/ SessionStop_emitProcessing(t)
  \/ SessionStop_findMany(t)
  \/ SessionStop_summarizeTranscript(t)
  \/ SessionStop_transaction(t)
  \/ SessionStop_findUniqueOrThrow(t)
  \/ SessionStop_emitCompleted(t)
  \/ SessionStop_catch(t)
  \/ SessionStop_emitError(t)

\* A step of a session:audioChunk handler.
AudioChunkStep(t) ==
  \/ AudioChunk_transcribeChunk(t)
  \/ AudioChunk_appendTranscriptChunk(t)
  \/ AudioChunk_emit(t)
  \/ AudioChunk_catch(t)

\* No gateway or store failure has befallen handler t, before or in the step.
Unfailing(t) ==
  /\ tasks[t].error \notin {GatewayError, StoreError}
  /\ tasks'[t].error \notin {GatewayError, StoreError}

NoErrorEmitted ==
  \A i \in 1 .. Len(emitted') : emitted'[i].type # "session:error"

NoErrorBroadcast ==
  \A i \in 1 .. Len(emitted') :
    ~(emitted'[i].type = "session:status" /\ emitted'[i].status = "ERROR")

\* C16: a stop whose session id has no Session row is handled as a no-op and
\* not as an error: no step of its handler (no gateway or store call failing)
\* emits an error event to the sender or broadcasts status=ERROR, and none
\* creates a Session or Summary row.
StopOfMissingSessionIsNoOp ==
  [][\A t \in TaskIds :
       StopStep(t) /\ Unfailing(t) /\ SessionsOf(tasks[t].sessionId) = {} =>
         /\ NoErrorEmitted
         /\ NoErrorBroadcast
         /\ sessions' = sessions
         /\ summaries' = summaries
    ]_vars

\* C17: an audioChunk with a valid payload and a non-empty transcription whose
\* session id has no Session row does not raise: no step of its handler (no
\* gateway or store call failing) emits an error event to the sender, and the
\* store is left in the one outcome "no chunk row stored".
ChunkOfMissingSessionDoesNotRaise ==
  [][\A t \in TaskIds :
       AudioChunkStep(t) /\ Unfailing(t)
         /\ SessionsOf(tasks[t].sessionId) = {} =>
           /\ NoErrorEmitted
           /\ chunks' = chunks
    ]_vars

\* C18: a transcription gateway failure in an audioChunk handler is tolerated
\* silently: after it the handler emits no error event, to the sender or to
\* the room, and no other event, and changes no session status; its only
\* effect is that the chunk is not stored.
TranscriptionFailureIsSilent ==
  [][\A t \in TaskIds :
       AudioChunkStep(t)
         /\ GatewayError \in {tasks[t].error, tasks'[t].error} =>
           /\ emitted' = <<>>
           /\ sessions' = sessions
           /\ chunks' = chunks
    ]_vars

\* C19: one failed chunk does not abort the session on the client: when the
\* server has failed to process an audioChunk and the recorder of its sender is
\* in recording, the recorder is still in recording after the events of the
\* server, so that it still accepts PAUSE and STOP.
FailedChunkKeepsRecording ==
  [][\A t \in TaskIds :
       AudioChunk_catch(t) =>
         LET after == Received("recording", tasks[t].conn, emitted')
         IN  /\ after = "recording"
             /\ recorderMachine(after, "PAUSE") = "paused"
             /\ recorderMachine(after, "STOP") = "processing"
    ]_vars

\* The statuses of a session whose recording is over.
Ended == {"PROCESSING", "COMPLETED", "ERROR"}

HasEnded(id) == StatusOf(id) # {} /\ StatusOf(id) \subseteq Ended

\* C20: in-flight transcription is not cancelled: when the transcription of an
\* audioChunk of an existing session has returned a text and the session is
\* PROCESSING, COMPLETED or ERROR, the store step of the handler (the store
\* call not failing) adds a row with the chunk's index and text and goes on to
\* the broadcast, the broadcast step sends the chunk as a partial transcript
\* to the session's room, and neither step changes a session row.
NoCancellationOfTranscription ==
  [][\A t \in TaskIds :
       /\ AudioChunk_appendTranscriptChunk(t) /\ Unfailing(t)
            /\ HasEnded(tasks[t].sessionId) =>
              /\ \E r \in chunks' \ chunks :
                   /\ chunks' = chunks \cup {r}
                   /\ r.sessionId = tasks[t].sessionId
                   /\ r.index = tasks[t].index
                   /\ r.text = tasks[t].text
              /\ tasks'[t].pc = "emit"
              /\ sessions' = sessions
       /\ AudioChunk_emit(t) /\ HasEnded(tasks[t].sessionId) =>
              /\ Len(emitted') = 1
              /\ emitted'[1].type = "session:partialTranscript"
              /\ emitted'[1].to = rooms[tasks[t].sessionId]
              /\ emitted'[1].sessionId = tasks[t].sessionId
              /\ emitted'[1].chunk[1].index = tasks[t].index
              /\ emitted'[1].chunk[1].text = tasks[t].text
              /\ \E r \in ChunksOf(tasks[t].sessionId) :
                   r.index = tasks[t].index /\ r.text = tasks[t].text
              /\ sessions' = sessions
    ]_vars

\* An audioChunk handler that began while its session was RECORDING has just
\* stored and broadcast its chunk, and the session is COMPLETED.
NoCancellationOfTranscriptionReached ==
  /\ lastDone.kind = "session:audioChunk"
  /\ lastDone.pc = "emit"
  /\ \A r \in lastDone.before[1].sessions : r.status = "RECORDING"
  /\ lastDone.before[1].sessions # {}
  /\ StatusOf(lastDone.sessionId) = {"COMPLETED"}
  /\ ChunksOf(lastDone.sessionId) \ lastDone.before[1].chunks # {}
  /\ Len(emitted) = 1
  /\ emitted[1].type = "session:partialTranscript"
  /\ emitted[1].sessionId = lastDone.sessionId

\* C21: transcript chunks are keyed by their index: in every state a session
\* has at most one TranscriptChunk row per index, so that an audioChunk sent
\* again with an index already stored adds no second row.
OneChunkPerIndex ==
  \A r1, r2 \in chunks :
    r1.sessionId = r2.sessionId /\ r1.index = r2.index => r1 = r2

\* A step of a session:start handler.
StartStep(t) ==
  \/ SessionStart_createSession(t)
  \/ SessionStart_join(t)
  \/ SessionStart_catch(t)

\* The events that change the state of a session.
StateMutating ==
  {"session:start", "session:pause", "session:resume", "session:stop"}

\* C22: the state-mutating events of one session are serialized: no handler
\* of a start, pause, resume or stop takes a step (a store write or a
\* broadcast) while another such handler of the same session, of the same
\* connection or of another, has begun and not yet returned.
StateMutatingSerialized ==
  [][\A t, u \in TaskIds :
       ~ /\ t # u
         /\ StartStep(t) \/ PauseOrResumeStep(t) \/ StopStep(t)
         /\ tasks[u].kind \in StateMutating
         /\ tasks[u].sessionId = tasks[t].sessionId
    ]_vars

\* The events the machine can be sent, with their payloads.
RecorderEventValues ==
  {Plain(type) : type \in RecorderEvents \ {"START", "ERROR"}}
    \cup {RecorderEvent("START", id, source, NULL) :
            id \in SessionIds, source \in {"MIC", "TAB"}}
    \cup {RecorderEvent("ERROR", NULL, NULL, message) :
            message \in {NULL, "", "Failed to process audio chunk",
                         "Failed to finalize session", "denied"}}

\* The transitions of the lifecycle: state, event, state entered.
ListedTransitions ==
  {<<"idle", "START", "recording">>,
   <<"completed", "START", "recording">>,
   <<"recording", "PAUSE", "paused">>,
   <<"paused", "RESUME", "recording">>,
   <<"recording", "STOP", "processing">>,
   <<"paused", "STOP", "processing">>,
   <<"reconnecting", "STOP", "processing">>,
   <<"recording", "SOCKET_DISCONNECTED", "reconnecting">>,
   <<"reconnecting", "SOCKET_RECONNECTED", "recording">>,
   <<"processing", "COMPLETED", "completed">>,
   <<"processing", "ERROR", "error">>,
   <<"completed", "RESET", "idle">>,
   <<"error", "RESET", "idle">>}

\* C23: in every state the machine reaches, with the context it then has, an
\* event that is listed for the state takes the machine to the state listed,
\* and every other event is ignored: it leaves the state and the context as
\* they are.
OnlyListedTransitions ==
  \A event \in RecorderEventValues :
    LET from == recorder.machine.state
        after == send(recorder.machine, event)
    IN  IF \E tr \in ListedTransitions : tr[1] = from /\ tr[2] = event.type
        THEN <<from, event.type, after.state>> \in ListedTransitions
        ELSE after = recorder.machine

\* C24: a pause or resume that arrives late, when the stored status of its
\* session is already PROCESSING, COMPLETED or ERROR, leaves the stored status
\* as it is: no step of its handler changes a session row.
LatePauseOrResumeIgnored ==
  [][\A t \in TaskIds :
       /\ PauseOrResumeStep(t)
       /\ tasks[t].before[1].sessions # {}
       /\ \A r \in tasks[t].before[1].sessions : r.status \in Ended
       => sessions' = sessions
    ]_vars

\* The events the server sends to the room of a session.
Broadcasts ==
  {"session:status", "session:partialTranscript", "session:completed"}

\* C25: the client of a session receives every broadcast of the session,
\* also after its transport has dropped and come back: connection c1, which
\* started session s1, is among the receivers of every status, partial
\* transcript and completed event of s1.
BroadcastsReachReconnected ==
  [][\A i \in 1 .. Len(emitted') :
       emitted'[i].type \in Broadcasts /\ emitted'[i].sessionId = "s1" =>
         "c1" \in emitted'[i].to
    ]_vars

\* C26: a client that has stopped its recording, so that its machine is in
\* processing, reaches completed when the finalization of its stop succeeds:
\* the events that the step ending a successful finalization sends to the
\* client, a member of the session's room, take its machine from processing
\* to completed.
ProcessingReachesCompleted ==
  [][\A t \in TaskIds :
       /\ SessionStop_emitCompleted(t)
       /\ tasks[t].conn \in rooms[tasks[t].sessionId]
       => Received("processing", tasks[t].conn, emitted') = "completed"
    ]_vars

\* The error events among those of the step.
ErrorsEmitted ==
  {i \in 1 .. Len(emitted') : emitted'[i].type = "session:error"}

\* C27: an inbound event ends silently or with one error event, and an error
\* event goes to the sender of the inbound event alone: a step emits an error
\* event only when it rejects a payload or when a handler returns, it emits
\* one at most, and the one receiver is the connection that sent the payload
\* or on whose socket the handler was called.
ErrorsToSenderOnly ==
  [][ErrorsEmitted # {} =>
       /\ Cardinality(ErrorsEmitted) = 1
       /\ \A i \in ErrorsEmitted :
            /\ emitted'[i].to = {emitted'[i].from}
            /\ \/ tasks' = tasks /\ events' = events + 1
               \/ \E t \in TaskIds :
                    /\ tasks[t].kind # NULL
                    /\ tasks'[t] = Free
                    /\ tasks[t].conn = emitted'[i].from
                    /\ tasks[t].pc \in {"catch", "emitError"}
    ]_vars

\* A stop that connection c2 sent for the session of c1 has failed: the room,
\* which holds c1, has been told the status ERROR and c2 alone the error.
ErrorsToSenderOnlyReached ==
  /\ lastDone.kind = "session:stop"
  /\ lastDone.error # NULL
  /\ Len(emitted) = 2
  /\ emitted[1].type = "session:status"
  /\ emitted[1].to = {"c1"}
  /\ emitted[2].type = "session:error"
  /\ emitted[2].to = {"c2"}

\* The arrays of chunks that the live transcript can be: a slot is a hole or
\* holds a chunk of its index.
TranscriptArrays ==
  {a \in [Indexes -> {None} \cup {Some([index |-> p.index, text |-> p.text]) :
                                    p \in PartialTranscriptPayloads}] :
     \A i \in Indexes : a[i] # None => a[i][1].index = i}

\* The texts of the slots of prev with those of p and q in their own slots, in
\* ascending order of index up to the last slot that is filled.
InIndexOrder(prev, p, q) ==
  LET filled == {p.index, q.index} \cup {i \in Indexes : prev[i] # None}
      last == CHOOSE i \in filled : \A j \in filled : j <= i
  IN  [k \in 1 .. last + 1 |->
         IF k - 1 = p.index THEN p.text
         ELSE IF k - 1 = q.index THEN q.text
         ELSE IF prev[k - 1] = None THEN <<>>
         ELSE prev[k - 1][1].text]

\* The payload that the client receives with a partial transcript event.
PayloadOf(e) ==
  [sessionId |-> e.sessionId, index |-> e.chunk[1].index,
   text |-> e.chunk[1].text]

\* C28: a partial transcript that is broadcast carries the index and the text
\* of the chunk of its handler, and the client places it by that index:
\* whatever the live transcript holds, the broadcast and any other partial
\* transcript of another index give the same live transcript in either order
\* of delivery, with the texts joined in ascending order of index, and of two
\* partial transcripts of one index the one delivered last is the one shown.
PlacedByIndex ==
  [][\A t \in TaskIds :
       AudioChunk_emit(t) =>
         LET p == PayloadOf(emitted'[1])
         IN  /\ p.index = tasks[t].index
             /\ p.text = tasks[t].text
             /\ \A prev \in TranscriptArrays :
                  \A q \in PartialTranscriptPayloads :
                    LET pq == handlePartialTranscript(
                                handlePartialTranscript(prev, p), q)
                        qp == handlePartialTranscript(
                                handlePartialTranscript(prev, q), p)
                    IN  /\ p.index # q.index => pq = qp
                        /\ p.index # q.index =>
                             transcriptText(pq) =
                               Join(InIndexOrder(prev, p, q), <<" ">>)
                        /\ p.index = q.index =>
                             /\ pq = handlePartialTranscript(prev, q)
                             /\ qp = handlePartialTranscript(prev, p)
    ]_vars

\* The chunk of index 0 has just been broadcast, after the chunk of index 1 of
\* its session was stored.
PlacedByIndexReached ==
  /\ lastDone.kind = "session:audioChunk"
  /\ lastDone.pc = "emit"
  /\ Len(emitted) = 1
  /\ emitted[1].type = "session:partialTranscript"
  /\ emitted[1].chunk[1].index = 0
  /\ \E r0, r1 \in ChunksOf(emitted[1].sessionId) :
       /\ r0.index = 0
       /\ r1.index = 1
       /\ r1.id < r0.id
       /\ r1 \in lastDone.before[1].chunks
       /\ r0 \notin lastDone.before[1].chunks

\* C29: in every reachable state a session has at most one Summary row, and
\* the Summary rows change only in the transaction of a stop finalization,
\* which changes the rows of its own session only: no step of a start, an
\* audio chunk, a pause or a resume creates, changes or deletes a Summary.
OneSummaryByStopOnly ==
  /\ [](\A id \in {r.sessionId : r \in summaries} :
          Cardinality(SummariesOf(id)) = 1)
  /\ [][summaries' # summaries =>
          \E t \in TaskIds :
            /\ SessionStop_transaction(t)
            /\ \A r \in (summaries \ summaries') \cup (summaries' \ summaries) :
                 r.sessionId = tasks[t].sessionId
            /\ ~ \E u \in TaskIds :
                   StartStep(u) \/ AudioChunkStep(u) \/ PauseOrResumeStep(u)
      ]_vars

\* Two stops of one session are in flight and both have committed: the
\* session has its Summary row.
OneSummaryByStopOnlyReached ==
  \E t, u \in TaskIds :
    /\ t # u
    /\ tasks[t].kind = "session:stop"
    /\ tasks[u].kind = "session:stop"
    /\ tasks[t].sessionId = tasks[u].sessionId
    /\ tasks[t].pc = "findUniqueOrThrow"
    /\ tasks[u].pc = "findUniqueOrThrow"
    /\ SummariesOf(tasks[t].sessionId) # {}

\* C30: stored transcript data only grows: across every step, failure paths
\* included, each stored TranscriptChunk row is still stored, with the same
\* index, text and offsets, and each Session row is still there.
StoredDataOnlyGrows ==
  [][/\ chunks \subseteq chunks'
     /\ \A r \in sessions : \E s \in sessions' : s.id = r.id
     /\ \A r \in chunks' \ chunks :
          \E t \in TaskIds : AudioChunk_appendTranscriptChunk(t)
    ]_vars

\* A stop of a session with stored chunks has failed and returned: the
\* session is in ERROR and its chunks are all there.
StoredDataOnlyGrowsReached ==
  /\ lastDone.kind = "session:stop"
  /\ lastDone.error # NULL
  /\ lastDone.before # None
  /\ lastDone.before[1].chunks # {}
  /\ lastDone.before[1].chunks \subseteq chunks
  /\ \E r \in SessionsOf(lastDone.sessionId) : r.status = "ERROR"

\* The handler t of an audio chunk of an existing session returns in this
\* step, and the transcription gateway has answered it.
AudioChunkReturns(t) ==
  /\ tasks[t].kind = "session:audioChunk"
  /\ AudioChunkStep(t)
  /\ tasks'[t] = Free
  /\ tasks[t].before[1].sessions # {}
  /\ tasks[t].error # GatewayError

\* The rows of the chunk of handler t that were stored since it began.
StoredBy(t) ==
  {r \in chunks' \ tasks[t].before[1].chunks :
     /\ r.sessionId = tasks[t].sessionId
     /\ r.index = tasks[t].index
     /\ r.text = tasks[t].text}

\* The step broadcasts the partial transcript of the chunk of handler t, and
\* nothing else.
BroadcastsChunkOf(t) ==
  /\ Len(emitted') = 1
  /\ emitted'[1].type = "session:partialTranscript"
  /\ emitted'[1].sessionId = tasks[t].sessionId
  /\ emitted'[1].chunk[1].index = tasks[t].index
  /\ emitted'[1].chunk[1].text = tasks[t].text
  /\ emitted'[1].to = rooms[tasks[t].sessionId]

\* What holds of every handler of an audio chunk when it returns: a partial
\* transcript is broadcast only of a chunk that is stored when it is issued,
\* and an empty text stores nothing, broadcasts nothing and emits no error.
StoreThenBroadcast(t) ==
  /\ (\E i \in 1 .. Len(emitted') :
        emitted'[i].type = "session:partialTranscript") =>
       /\ BroadcastsChunkOf(t)
       /\ StoredBy(t) \cap chunks # {}
  /\ tasks[t].text = <<>> =>
       /\ emitted' = <<>>
       /\ StoredBy(t) = {}
       /\ store' = store

\* The claim as it is stated: stored and broadcast exactly when the trimmed
\* text is not empty.
StoredAndBroadcastIffNonEmpty ==
  [][\A t \in TaskIds :
       AudioChunkReturns(t) =>
         /\ tasks[t].text # <<>> <=> (StoredBy(t) # {} /\ BroadcastsChunkOf(t))
         /\ StoreThenBroadcast(t)
    ]_vars

\* C31: for each audio chunk of an existing session that the gateway has
\* transcribed, the chunk is stored and then its partial transcript broadcast
\* exactly when the trimmed text is not empty and the write to the store does
\* not fail; a broadcast has its stored chunk when it is issued; an empty
\* text stores nothing, broadcasts nothing and emits no error; a failed write
\* broadcasts nothing and emits the error to the sender.
StoredAndBroadcastIffNonEmptyAndWritten ==
  [][\A t \in TaskIds :
       AudioChunkReturns(t) =>
         /\ (tasks[t].text # <<>> /\ tasks[t].error = NULL)
              <=> (StoredBy(t) # {} /\ BroadcastsChunkOf(t))
         /\ StoreThenBroadcast(t)
         /\ tasks[t].error # NULL =>
              /\ tasks[t].text # <<>>
              /\ emitted' = <<ErrorEvent(tasks[t].conn,
                                         "Failed to process audio chunk")>>
    ]_vars

\* An audio chunk of an existing session was transcribed to an empty text and
\* its handler has returned: nothing was stored or emitted.
StoredAndBroadcastIffNonEmptyAndWrittenReached ==
  /\ lastDone.kind = "session:audioChunk"
  /\ lastDone.pc = "transcribeChunk"
  /\ lastDone.error = NULL
  /\ lastDone.before[1].sessions # {}
  /\ ChunksOf(lastDone.sessionId) = lastDone.before[1].chunks
  /\ emitted = <<>>

\* The label of a state of the machine, as the status pill shows it.
StatusLabel(state) ==
  CASE state = "idle" -> "Idle"
    [] state = "recording" -> "Recording"
    [] state = "paused" -> "Paused"
    [] state = "reconnecting" -> "Reconnecting..."
    [] state = "processing" -> "Processing summary..."
    [] state = "completed" -> "Completed"
    [] state = "error" -> "Error"

\* The statusMessage of the machine is the label of its state.
LabelOk(machine) ==
  machine.context.statusMessage = StatusLabel(machine.state)

\* C32: in every reachable state of the machine, context.statusMessage is the
\* label of the current state: it is in the state the component has brought
\* the machine to, and in the state that any event of the machine leads to
\* from there.
StatusMessageIsLabel ==
  /\ LabelOk(recorder.machine)
  /\ \A event \in RecorderEventValues : LabelOk(send(recorder.machine, event))

\* The component sends ERROR to the machine in this step.
SendsError ==
  \/ \E sessionId \in SessionIds :
       \E failure \in StartFailures :
         Recorder_startRecording_catch(sessionId, failure)
  \/ Recorder_onerror
  \/ \E payload \in ErrorPayloads : Recorder_handleError(payload)
  \/ \E payload \in StatusPayloads :
       payload.status = "ERROR" /\ Recorder_handleStatus(payload)

\* C33: every failure that the component reports to the machine by sending
\* ERROR leaves the machine in the error state with an errorMessage that is
\* not empty, whatever state the machine was in.
ErrorReportedEntersError ==
  [][SendsError =>
       /\ recorder'.machine.state = "error"
       /\ recorder'.machine.context.errorMessage \notin {NULL, ""}
    ]_vars

\* The events that the component sends to the machine, of itself or on an
\* event of the server: all of them but RESET.
DeliveredEvents == RecorderEvents \ {"RESET"}

\* The states of the machine that the delivered events lead to from states.
RECURSIVE Reachable(_)
Reachable(states) ==
  LET next == states \cup {recorderMachine(state, event) :
                             state \in states, event \in DeliveredEvents}
  IN  IF next = states THEN states ELSE Reachable(next)

\* C34: the recorder can always begin another session: from every reachable
\* state of the machine, the events that the component and the server deliver
\* to it lead to a state that accepts START (idle or completed).
CanStartAgain ==
  Reachable({recorder.machine.state}) \cap {"idle", "completed"} # {}

\* The status that a lifecycle broadcast carries: a completed event counts as
\* COMPLETED.
LifecycleStatus(e) ==
  IF e.type = "session:completed" THEN "COMPLETED" ELSE e.status

\* The lifecycle broadcasts among the events of the step.
LifecycleEmitted ==
  {i \in 1 .. Len(emitted') :
     emitted'[i].type \in {"session:status", "session:completed"}}

\* C35: whenever no handler of an existing session is in flight, the stored
\* status of the session is the status of the latest lifecycle broadcast to
\* its room: a step of a pause, resume or stop handler, begun when the
\* session existed, that issues such a broadcast and leaves no handler of
\* the session in flight, no store or gateway call having failed, leaves
\* that status stored.
StoredStatusIsLastBroadcast ==
  [][\A i \in LifecycleEmitted :
       LET id == emitted'[i].sessionId
       IN  (/\ faults' = 0
            /\ SessionsOf(id) # {}
            /\ \A j \in LifecycleEmitted : j <= i
            /\ \E t \in TaskIds :
                 /\ PauseOrResumeStep(t) \/ StopStep(t)
                 /\ tasks[t].before[1].sessions # {}
            /\ \A t \in TaskIds : tasks'[t].sessionId # id)
           => {r.status : r \in {x \in sessions' : x.id = id}}
                = {LifecycleStatus(emitted'[i])}
    ]_vars

LiveTranscriptOfOneSession ==
  [][\A payload \in PartialTranscriptPayloads :
       (/\ Recorder_handlePartialTranscript(payload)
        /\ recorder.mediaRecorder # NULL
        /\ recorder.flushing # NULL
        /\ payload.sessionId = recorder.flushing
        /\ payload.sessionId # recorder.activeSessionId)
       => recorder'.transcriptChunks = recorder.transcriptChunks
    ]_vars

\* C38: for each recording, the component emits session:stop only after the
\* session:audioChunk of every segment captured for the session, the last
\* segment that the stopped MediaRecorder delivers included: when it emits
\* session:stop for a session, no segment of that session is still to be
\* delivered and emitted.
StopAfterEveryChunk ==
  [][\A i \in 1 .. Len(recorder'.sent) :
       recorder'.sent[i].type = "session:stop" =>
         recorder'.flushing # recorder'.sent[i].sessionId
    ]_vars

\* C39: the machine and the MediaRecorder agree about pausing: in every
\* reachable state of the component the MediaRecorder is paused only if the
\* machine is in paused, a session:pause is emitted only into the state
\* paused, and while the machine is in recording a MediaRecorder that has not
\* failed is capturing.
PauseAgreement ==
  /\ recorder.mediaRecorder = "paused" => recorder.machine.state = "paused"
  /\ \A i \in 1 .. Len(recorder.sent) :
       recorder.sent[i].type = "session:pause" =>
         recorder.machine.state = "paused"
  /\ recorder.machine.state = "recording" =>
       recorder.mediaRecorder \in {"recording", "inactive"}

\* C40: a stop sets the status ERROR only if its finalization did not commit:
\* a stop whose transaction (Summary upsert and COMPLETED write) has
\* committed does not afterwards write the status ERROR, broadcast ERROR or
\* emit an error event, even if the re-read after the commit fails.
NoErrorAfterCommit ==
  [][\A t \in TaskIds :
       (/\ StopStep(t)
        /\ "commit" \in Range(tasks[t].did))
       => /\ \A r \in SessionsOf(tasks[t].sessionId) :
               r.status = "COMPLETED" => r \in sessions'
          /\ NoErrorEmitted
          /\ NoErrorBroadcast
    ]_vars

====
